---------------------------- MODULE Spec2Model ----------------------------
(***************************************************************************)
(* Model of the Safety AnalystBot retrieval backend (backend/rag.py and    *)
(* the index lifecycle of backend/main.py).                                *)
(*                                                                         *)
(* Spec          the server process: startup, dataset uploads, background  *)
(*               index rebuilds, chat requests, status requests, crashes.  *)
(* SpecRetrieve  one call of rag.retrieve, step by step, over every        *)
(*               outcome of the two store queries.                         *)
(* SpecParse     one call of rag.parse_query on a query put together from  *)
(*               fragments.                                                *)
(* SpecScore     the score the reranker gives to two hits.                 *)
(* SpecChunks    load_and_clean and build_chunks on one row of the CSV.    *)
(* SpecRebuild   uploads of one dataset, one after the other.              *)
(* SpecEmbedder  threads that call _get_embedder and encode.               *)
(* SpecLoad      the year and risk columns of load_and_clean on a small    *)
(*               table.                                                    *)
(* SpecIndex     startups, crashes and rebuilds, one build at a time.      *)
(* SpecLive      the process with fairly scheduled rebuild threads.        *)
(***************************************************************************)
EXTENDS Integers, Sequences, FiniteSets, TLC

\* ------------------------------------------------------------------ bounds

\* worker threads that run _rebuild_index_task (uploads accepted and not yet finished)
MaxUploads == 2
\* worker threads that serve /api/chat and /api/status
MaxReqs == 1

\* rag.py:280  for i in range(0, len(ids), 200)
BatchSize == 200

None == "None"

\* ---------------------------------------------------------------- datasets
\* A dataset is the CSV at a path.  "A" yields BatchSize + 1 chunks (two
\* insert batches), "B" yields three chunks, two of them with ids that "A"
\* has too, "E" yields no chunk (every narrative shorter than 20 characters).
DatasetIds == {"A", "E"}

FirstId(d) == IF d = "B" THEN BatchSize ELSE 1

NumChunks(d) ==
    CASE d = "A" -> BatchSize + 1
      [] d = "B" -> 3
      [] OTHER   -> 0

\* ids returned by build_chunks(df), in row order, as ids[p] for p in 1..NumChunks
ChunkIdAt(d, p) == FirstId(d) + p - 1

build_chunks(d) == {ChunkIdAt(d, p) : p \in 1..NumChunks(d)}

\* ids[i:i+200]
Slice(d, i) ==
    {ChunkIdAt(d, p) : p \in (i + 1)..(IF i + BatchSize < NumChunks(d)
                                        THEN i + BatchSize ELSE NumChunks(d))}

\* ------------------------------------------------------------------- state

VARIABLES
    phase,         \* "down" | "starting" (lifespan runs) | "serving"
    csv,           \* the dataset stored at CSV_PATH, or None
    coll,          \* the persisted collection "safety_incidents": NoColl or [exists, items]
    _collection,   \* rag._collection: a handle
    _df,           \* rag._df: None or the loaded dataset
    _rebuilding,   \* main._rebuilding
    task,          \* task[0]: initialize() of lifespan; task[1..]: _rebuild_index_task threads
    req,           \* request worker threads: one /api/chat or /api/status request each
    lastGood       \* history: NoGood, or the chunks the last build that succeeded wrote

sysVars == <<phase, csv, coll, _collection, _df, _rebuilding, task, req, lastGood>>

NoColl == [exists |-> FALSE, items |-> {}]

\* no build has succeeded yet / the last one that did wrote these chunks
NoGood == [any |-> FALSE, items |-> {}]

Good(items) == [any |-> TRUE, items |-> items]

\* A handle is None, or names a collection of the store.  Only one collection
\* (one name) exists at a time, so all that matters of a named collection is
\* whether it is the one in the store ("cur") or one dropped since ("gone").
NoHandle == None

Dropped(h) == IF h = "cur" THEN "gone" ELSE h

\* the collection the handle h names still exists in the store
Live(h) == h = "cur"

Tasks   == 0..MaxUploads
Uploads == 1..MaxUploads
Reqs    == 1..MaxReqs

\* path: the uploaded file; df, h, i: locals of build_index; failed: an exception
\* is propagating; accepted (history): build_index returned the collection it found.
\* A local that is not read again is set back to its initial value.
IdleTask == [pc |-> "none", path |-> None, df |-> None, h |-> NoHandle,
             i |-> 0, failed |-> FALSE, accepted |-> FALSE]

\* lifespan calls initialize without the flag, _rebuild_index_task with force_rebuild=True
force_rebuild(t) == t # 0

\* resp: the answer; live, seen: whether the handle named the collection of the
\* store when the request read it, and the chunks it held then;
\* raced (history): a build was between its drop and its last insert then;
\* busy (history): a build was running then; stats: the answer of get_index_stats
IdleReq == [pc |-> "idle", resp |-> None, live |-> FALSE, seen |-> {}, raced |-> FALSE,
            busy |-> FALSE, stats |-> None]

\* a build has dropped the old collection and has not written its last batch
InRebuildWindow(t) == task[t].pc \in {"create", "assign", "embed", "add"}

Running(t) == task[t].pc \notin {"none", "pending", "done"}


TypeOK ==
    /\ phase \in {"down", "starting", "serving"}
    /\ csv \in DatasetIds \cup {None}
    /\ _df \in DatasetIds \cup {None}
    /\ _rebuilding \in BOOLEAN

SysInit ==
    /\ phase = "down"
    /\ csv \in {None, "A"}
    /\ coll = NoColl
    /\ _collection = NoHandle
    /\ _df = None
    /\ _rebuilding = FALSE
    /\ task = [t \in Tasks |-> IdleTask]
    /\ req = [c \in Reqs |-> IdleReq]
    /\ lastGood = NoGood


\* ------------------------------------------------ retrieve call (SpecRetrieve)
VARIABLES
    rpc,              \* "off" | "start" | "filter" | "blend" | "done"
    query,            \* the query, as what parse_query and the reranker make of it
    n_results,        \* argument of retrieve
    filters,          \* the local of retrieve: the caller's filter, then the one used
    sem,              \* semantic score (1 - distance) of every chunk for this query
    parsed_info,      \* local of retrieve
    fres, ures,       \* outcome of the filtered / unfiltered _do_query: None, "ok", "error"
    filtered_hits, unfiltered_hits, candidates,
    final_hits,       \* the hit list returned
    raised            \* None, or the exception that left retrieve

retVars == <<rpc, query, n_results, filters, sem, parsed_info, fres, ures,
             filtered_hits, unfiltered_hits, candidates, final_hits, raised>>

\* ------------------------------------- calls of the pure functions, one at a time
VARIABLES
    parse,            \* the frame of one parse_query call (SpecParse)
    score,            \* the frame of the scoring of two candidates (SpecScore)
    chunks,           \* the frame of build_chunks on one row (SpecChunks)
    observed,         \* what the collection held after each rebuild that returned (SpecRebuild)
    embed,            \* rag._embedder and the threads that call _get_embedder (SpecEmbedder)
    load              \* the frame of one load_and_clean call (SpecLoad)

unitVars == <<parse, score, chunks, observed, embed, load>>

vars == <<sysVars, retVars, unitVars>>

\* no call of a pure function is open
UnitIdle ==
    /\ parse = None /\ score = None /\ chunks = None /\ observed = <<>>
    /\ embed = None /\ load = None

RetIdle ==
    /\ rpc = "off"
    /\ query = None /\ n_results = 0 /\ filters = None /\ sem = <<>>
    /\ parsed_info = None /\ fres = None /\ ures = None
    /\ filtered_hits = <<>> /\ unfiltered_hits = <<>> /\ candidates = <<>>
    /\ final_hits = <<>> /\ raised = None

\* ------------------------------------------------------- process lifecycle

\* everything the process holds in memory is lost; the CSV and the store persist
MemoryReset ==
    /\ _collection' = NoHandle
    /\ _df' = None
    /\ _rebuilding' = FALSE
    /\ task' = [t \in Tasks |-> IdleTask]
    /\ req' = [c \in Reqs |-> IdleReq]

\* main.py lifespan: initialize(CSV_PATH, CHROMA_PATH) when the CSV exists
Startup ==
    /\ phase = "down"
    /\ IF csv = None
       THEN /\ phase' = "serving"
            /\ UNCHANGED task
       ELSE /\ phase' = "starting"
            /\ task' = [task EXCEPT ![0] = [IdleTask EXCEPT !.pc = "load"]]
    /\ UNCHANGED <<csv, coll, _collection, _df, _rebuilding, req, lastGood, retVars, unitVars>>

\* the process dies at any point (a crash in the middle of the bulk insert included)
Crash ==
    /\ phase # "down"
    /\ phase' = "down"
    /\ MemoryReset
    /\ UNCHANGED <<csv, coll, lastGood, retVars, unitVars>>

\* a thread of the process may take a step
CanStep(t) == IF t = 0 THEN phase = "starting" ELSE phase = "serving"

\* --------------------------------------------------------- dataset upload

\* main.py upload_dataset: 409 while _rebuilding, else the rebuild is queued
upload_dataset(t, d) ==
    /\ phase = "serving"
    /\ t \in Uploads
    /\ task[t].pc = "none"
    /\ ~_rebuilding
    /\ task' = [task EXCEPT ![t] = [IdleTask EXCEPT !.pc = "pending", !.path = d]]
    /\ UNCHANGED <<phase, csv, coll, _collection, _df, _rebuilding, req, lastGood, retVars, unitVars>>

\* _rebuild_index_task: _rebuilding = True
RebuildStart(t) ==
    /\ t \in Uploads /\ CanStep(t)
    /\ task[t].pc = "pending"
    /\ _rebuilding' = TRUE
    /\ task' = [task EXCEPT ![t].pc = "copy"]
    /\ UNCHANGED <<phase, csv, coll, _collection, _df, req, lastGood, retVars, unitVars>>

\* _rebuild_index_task: shutil.copy(path, CSV_PATH)
RebuildCopy(t) ==
    /\ t \in Uploads /\ CanStep(t)
    /\ task[t].pc = "copy"
    /\ csv' = task[t].path
    /\ task' = [task EXCEPT ![t].pc = "load", ![t].path = None]
    /\ UNCHANGED <<phase, coll, _collection, _df, _rebuilding, req, lastGood, retVars, unitVars>>

\* mutant: the flag is cleared after initialize returned, not in a finally clause
RebuildFinally_OnSuccess(t) ==
    /\ t \in Uploads /\ CanStep(t)
    /\ task[t].pc = "finally"
    /\ _rebuilding' = (_rebuilding /\ task[t].failed)
    /\ task' = [task EXCEPT ![t] = IdleTask]
    /\ UNCHANGED <<phase, csv, coll, _collection, _df, req, lastGood, retVars, unitVars>>

\* _rebuild_index_task: finally: _rebuilding = False; the thread is free again
RebuildFinally(t) ==
    /\ t \in Uploads /\ CanStep(t)
    /\ task[t].pc = "finally"
    /\ _rebuilding' = FALSE
    /\ task' = [task EXCEPT ![t] = IdleTask]
    /\ UNCHANGED <<phase, csv, coll, _collection, _df, req, lastGood, retVars, unitVars>>

\* lifespan after initialize: an exception ends the process, else requests are served
StartupDone ==
    /\ phase = "starting"
    /\ task[0].pc = "finally"
    /\ IF task[0].failed
       THEN /\ phase' = "down"
            /\ MemoryReset
       ELSE /\ phase' = "serving"
            /\ task' = [task EXCEPT ![0].pc = "done"]
            /\ UNCHANGED <<_collection, _df, _rebuilding, req>>
    /\ UNCHANGED <<csv, coll, lastGood, retVars, unitVars>>

\* ------------------------------------------------------------- initialize

\* rag.initialize: _df = load_and_clean(csv_path); reading the CSV may raise
initialize(t, ok) ==
    /\ CanStep(t)
    /\ task[t].pc = "load"
    /\ IF ok
       THEN /\ _df' = csv
            /\ task' = [task EXCEPT ![t].pc = "enter"]
       ELSE /\ task' = [task EXCEPT ![t].pc = "finally", ![t].failed = TRUE]
            /\ UNCHANGED _df
    /\ UNCHANGED <<phase, csv, coll, _collection, _rebuilding, req, lastGood, retVars, unitVars>>

\* ------------------------------------------------------------ build_index
\* build_index(df, chroma_path, force_rebuild), one store or global access a step.

\* the exception leaves build_index and initialize
Raise(t) == [task EXCEPT ![t] = [IdleTask EXCEPT !.pc = "finally", !.failed = TRUE]]

\* build_index returns
Return(t, acc) == [task EXCEPT ![t] = [IdleTask EXCEPT !.pc = "finally", !.accepted = acc]]

\* mutant: an existing collection is returned whatever its count
BuildEnter_AcceptsEmpty(t) ==
    /\ CanStep(t)
    /\ task[t].pc = "enter"
    /\ IF coll.exists /\ ~force_rebuild(t)
       THEN /\ _collection' = "cur"
            /\ task' = Return(t, TRUE)
       ELSE /\ task' = [task EXCEPT ![t].pc = "delete", ![t].df = _df]
            /\ UNCHANGED _collection
    /\ UNCHANGED <<phase, csv, coll, _df, _rebuilding, req, lastGood, retVars, unitVars>>

\* entry (rag.py:251-260): df is bound, the collections are listed; without the
\* force flag an existing collection becomes the handle and, when its count is
\* positive, is returned as the index
BuildEnter(t) ==
    /\ CanStep(t)
    /\ task[t].pc = "enter"
    /\ IF coll.exists /\ ~force_rebuild(t)
       THEN /\ _collection' = "cur"
            /\ IF Cardinality(coll.items) > 0
               THEN task' = Return(t, TRUE)
               ELSE task' = [task EXCEPT ![t].pc = "delete", ![t].df = _df]
       ELSE /\ task' = [task EXCEPT ![t].pc = "delete", ![t].df = _df]
            /\ UNCHANGED _collection
    /\ UNCHANGED <<phase, csv, coll, _df, _rebuilding, req, lastGood, retVars, unitVars>>

\* rag.py:262-265  client.delete_collection, any exception swallowed; every
\* handle on the collection now names a dropped collection
BuildDelete(t) ==
    /\ CanStep(t)
    /\ task[t].pc = "delete"
    /\ coll' = NoColl
    /\ _collection' = Dropped(_collection)
    /\ task' = [u \in Tasks |-> IF u = t THEN [task[u] EXCEPT !.pc = "create"]
                                ELSE [task[u] EXCEPT !.h = Dropped(@)]]
    /\ UNCHANGED <<phase, csv, _df, _rebuilding, req, lastGood, retVars, unitVars>>

\* rag.py:267-270  client.create_collection: raises when the name exists again
BuildCreate(t) ==
    /\ CanStep(t)
    /\ task[t].pc = "create"
    /\ IF coll.exists
       THEN /\ task' = Raise(t)
            /\ UNCHANGED coll
       ELSE /\ coll' = [exists |-> TRUE, items |-> {}]
            /\ task' = [task EXCEPT ![t].pc = "assign", ![t].h = "cur"]
    /\ UNCHANGED <<phase, csv, _collection, _df, _rebuilding, req, lastGood, retVars, unitVars>>

\* rag.py:267  _collection = <the created collection>
BuildAssign(t) ==
    /\ CanStep(t)
    /\ task[t].pc = "assign"
    /\ _collection' = task[t].h
    /\ task' = [task EXCEPT ![t].pc = "embed", ![t].h = NoHandle]
    /\ UNCHANGED <<phase, csv, coll, _df, _rebuilding, req, lastGood, retVars, unitVars>>

\* rag.py:272-278  build_chunks and embedder.encode; encode may raise.  With no
\* chunk the insert loop has no iteration and build_index returns.
BuildEmbed(t, ok) ==
    /\ CanStep(t)
    /\ task[t].pc = "embed"
    /\ IF ok
       THEN IF NumChunks(task[t].df) = 0
            THEN /\ task' = Return(t, FALSE)
                 /\ lastGood' = Good(build_chunks(task[t].df))
            ELSE /\ task' = [task EXCEPT ![t].pc = "add", ![t].i = 0]
                 /\ UNCHANGED lastGood
       ELSE /\ task' = Raise(t)
            /\ UNCHANGED lastGood
    /\ UNCHANGED <<phase, csv, coll, _collection, _df, _rebuilding, req, retVars, unitVars>>

\* mutant: the ids of a build carry a part that is fresh in every build
BuildAdd_FreshIds(t, ok) ==
    /\ CanStep(t)
    /\ task[t].pc = "add"
    /\ IF ok /\ Live(_collection)
       THEN /\ coll' = [coll EXCEPT !.items =
                            @ \cup {1000 * t + id : id \in Slice(task[t].df, task[t].i)}]
            /\ IF task[t].i + BatchSize < NumChunks(task[t].df)
               THEN /\ task' = [task EXCEPT ![t].i = @ + BatchSize]
                    /\ UNCHANGED lastGood
               ELSE /\ task' = Return(t, FALSE)
                    /\ lastGood' = Good(build_chunks(task[t].df))
       ELSE /\ task' = Raise(t)
            /\ UNCHANGED <<coll, lastGood>>
    /\ UNCHANGED <<phase, csv, _collection, _df, _rebuilding, req, retVars, unitVars>>

\* rag.py:280-289  one iteration of the insert loop: _collection.add(ids[i:i+200], ...)
\* through the global handle; the add raises on a dropped collection or when the
\* store fails; after the last batch build_index returns
BuildAdd(t, ok) ==
    /\ CanStep(t)
    /\ task[t].pc = "add"
    /\ IF ok /\ Live(_collection)
       THEN /\ coll' = [coll EXCEPT !.items = @ \cup Slice(task[t].df, task[t].i)]
            /\ IF task[t].i + BatchSize < NumChunks(task[t].df)
               THEN /\ task' = [task EXCEPT ![t].i = @ + BatchSize]
                    /\ UNCHANGED lastGood
               ELSE /\ task' = Return(t, FALSE)
                    /\ lastGood' = Good(build_chunks(task[t].df))
       ELSE /\ task' = Raise(t)
            /\ UNCHANGED <<coll, lastGood>>
    /\ UNCHANGED <<phase, csv, _collection, _df, _rebuilding, req, retVars, unitVars>>

\* ---------------------------------------------------------------- requests

\* main.py:163  if _rebuilding: raise HTTPException(503, ...)
ChatCheck(c) ==
    /\ phase = "serving"
    /\ req[c].pc = "idle"
    /\ IF _rebuilding
       THEN req' = [req EXCEPT ![c].pc = "done", ![c].resp = "503_rebuilding"]
       ELSE req' = [req EXCEPT ![c].pc = "retrieve"]
    /\ UNCHANGED <<phase, csv, coll, _collection, _df, _rebuilding, task, lastGood, retVars, unitVars>>

\* rag.py:435-436 and main.py:177-178  _collection is None: RuntimeError, answered 503
ChatRetrieve(c) ==
    /\ phase = "serving"
    /\ req[c].pc = "retrieve"
    /\ IF _collection = NoHandle
       THEN req' = [req EXCEPT ![c].pc = "done", ![c].resp = "503_not_initialized"]
       ELSE req' = [req EXCEPT ![c].pc = "query"]
    /\ UNCHANGED <<phase, csv, coll, _collection, _df, _rebuilding, task, lastGood, retVars, unitVars>>

\* rag.py:450-507  _do_query through the global handle: the hits come from the
\* chunks the collection holds at that moment; a dropped collection makes the
\* query raise, which retrieve turns into no candidates and an empty hit list
ChatQuery(c) ==
    /\ phase = "serving"
    /\ req[c].pc = "query"
    /\ req' = [req EXCEPT ![c].pc = "done",
                          ![c].resp = "hits",
                          ![c].live = Live(_collection),
                          ![c].seen = IF Live(_collection) THEN coll.items ELSE {},
                          ![c].raced = \E t \in Tasks : InRebuildWindow(t),
                          ![c].busy = \E t \in Tasks : Running(t)]
    /\ UNCHANGED <<phase, csv, coll, _collection, _df, _rebuilding, task, lastGood, retVars, unitVars>>

\* rag.py:528-538  get_index_stats; _collection.count() raises on a dropped collection
get_index_stats ==
    IF _collection = NoHandle
    THEN [status |-> "not_initialized", chunks |-> 0]
    ELSE IF Live(_collection)
         THEN [status |-> "ready", chunks |-> Cardinality(coll.items)]
         ELSE [status |-> "error", chunks |-> 0]

\* main.py:150-153  GET /api/status
api_status(c) ==
    /\ phase = "serving"
    /\ req[c].pc = "idle"
    /\ req' = [req EXCEPT ![c].pc = "done", ![c].resp = "stats",
                          ![c].live = Live(_collection),
                          ![c].seen = IF Live(_collection) THEN coll.items ELSE {},
                          ![c].busy = \E t \in Tasks : Running(t),
                          ![c].stats = get_index_stats]
    /\ UNCHANGED <<phase, csv, coll, _collection, _df, _rebuilding, task, lastGood, retVars, unitVars>>

\* the response is sent; the worker thread takes the next request
ReqReturn(c) ==
    /\ phase = "serving"
    /\ req[c].pc = "done"
    /\ req' = [req EXCEPT ![c] = IdleReq]
    /\ UNCHANGED <<phase, csv, coll, _collection, _df, _rebuilding, task, lastGood, retVars, unitVars>>

\* ------------------------------------------------------------ the process

SysNext ==
    \/ Startup
    \/ StartupDone
    \/ Crash
    \/ \E t \in Uploads, d \in DatasetIds : upload_dataset(t, d)
    \/ \E t \in Uploads : RebuildStart(t)
    \/ \E t \in Uploads : RebuildCopy(t)
    \/ \E t \in Uploads : RebuildFinally(t)
    \/ \E t \in Tasks, ok \in BOOLEAN : initialize(t, ok)
    \/ \E t \in Tasks : BuildEnter(t)
    \/ \E t \in Tasks : BuildDelete(t)
    \/ \E t \in Tasks : BuildCreate(t)
    \/ \E t \in Tasks : BuildAssign(t)
    \/ \E t \in Tasks, ok \in BOOLEAN : BuildEmbed(t, ok)
    \/ \E t \in Tasks, ok \in BOOLEAN : BuildAdd(t, ok)
    \/ \E c \in Reqs : ChatCheck(c)
    \/ \E c \in Reqs : ChatRetrieve(c)
    \/ \E c \in Reqs : ChatQuery(c)
    \/ \E c \in Reqs : api_status(c)
    \/ \E c \in Reqs : ReqReturn(c)

Init == SysInit /\ RetIdle /\ UnitIdle

Next == SysNext

Spec == Init /\ [][Next]_vars

\* ------------------------------------------------- claims on the process

\* C1: no retrieval queries the collection while a rebuild is between the drop
\* of the old collection and its last insert batch; a chat request made then is
\* refused (503) instead.
C1_NoQueryDuringRebuild ==
    \A c \in Reqs : req[c].resp = "hits" => ~req[c].raced

\* C2: when a rebuild fails, the collection that served before is unchanged and
\* still serves (the handle names it and it holds the chunks of the last build
\* that succeeded), or nothing serves if no build ever succeeded.
C2_FailedRebuildKeepsIndex ==
    \A t \in Uploads :
        (task[t].pc = "finally" /\ task[t].failed) =>
            IF lastGood.any
            THEN Live(_collection) /\ coll.items = lastGood.items
            ELSE _collection = NoHandle

\* C3: at most one index rebuild executes at any time.
C3_SingleWriter ==
    Cardinality({t \in Uploads : Running(t)}) <= 1

\* 0 < stored chunks < chunks of the loaded dataset
Partial == /\ _df # None
           /\ 0 < Cardinality(coll.items)
           /\ Cardinality(coll.items) < NumChunks(_df)

\* C4: startup never accepts a partially populated collection as the index.
C4_PartialNeverAccepted ==
    (task[0].pc = "finally" /\ task[0].accepted) => ~Partial

\* C5: a retrieve call made before any index build has completed successfully
\* does not return a hit list (it fails with the 'not initialized' error);
\* stated for the calls that query while no build runs (the others are C1's).
C5_NotInitializedBeforeBuild ==
    \A c \in Reqs : (req[c].resp = "hits" /\ ~req[c].busy) => lastGood.any

\* C8: for an index that exists and holds 0 chunks (while no build runs) the
\* stats query reports a 'not ready' status; retrieve on such an index is
\* EmptyIndexRetrieve.
C8_EmptyIndexNotReady ==
    \A c \in Reqs :
        (req[c].resp = "stats" /\ req[c].live /\ req[c].seen = {} /\ ~req[c].busy) =>
            req[c].stats.status = "not_ready"

\* C24: when initialize has returned normally, at startup or in a rebuild, the
\* active collection holds exactly the chunks built from the loaded dataset.
C24_IndexMatchesDataset ==
    \A t \in Tasks :
        (task[t].pc = "finally" /\ ~task[t].failed) =>
            /\ Live(_collection)
            /\ coll.items = build_chunks(_df)

\* C28: a forced rebuild replaces the collection: when the rebuild of a thread
\* returns normally, the handle names the collection of the store and that
\* collection holds no chunk but those of the dataset the thread built from
\* (none left over from the index before).
C28_RebuildReplaces ==
    [][\A t \in Uploads :
          (task[t].pc \in {"embed", "add"} /\ task'[t].pc = "finally" /\ ~task'[t].failed) =>
              (Live(_collection') /\ coll'.items \subseteq build_chunks(task[t].df))]_vars

\* ------------------------------------------------------------ text helpers
\* Texts are strings; Len, SubSeq and \o act on them character by character.

At(s, i) == SubSeq(s, i, i)

\* Python's `p in s` on strings
Contains(s, p) == \E i \in 1..(Len(s) - Len(p) + 1) : SubSeq(s, i, i + Len(p) - 1) = p

UPPER == "ABCDEFGHIJKLMNOPQRSTUVWXYZ"
LOWER == "abcdefghijklmnopqrstuvwxyz"
DIGITS == "0123456789"

\* position of the character c in s, 0 when it is not there
IndexIn(s, c) ==
    IF \E i \in 1..Len(s) : At(s, i) = c THEN CHOOSE i \in 1..Len(s) : At(s, i) = c ELSE 0

IsLetter(c) == IndexIn(UPPER, c) > 0 \/ IndexIn(LOWER, c) > 0
IsDigit(c) == IndexIn(DIGITS, c) > 0
\* the class \w of the regular expressions
IsWordChar(c) == IsLetter(c) \/ IsDigit(c) \/ c = "_"

LowerChar(c) == IF IndexIn(UPPER, c) > 0 THEN At(LOWER, IndexIn(UPPER, c)) ELSE c
UpperChar(c) == IF IndexIn(LOWER, c) > 0 THEN At(UPPER, IndexIn(LOWER, c)) ELSE c

\* str.lower()
RECURSIVE lower(_)
lower(s) ==
    IF Len(s) = 0 THEN s ELSE lower(SubSeq(s, 1, Len(s) - 1)) \o LowerChar(At(s, Len(s)))

\* str.title(): a letter after a letter is lower-cased, any other letter upper-cased
RECURSIVE title(_)
title(s) ==
    IF Len(s) = 0 THEN s
    ELSE LET n == Len(s)
             c == At(s, n)
         IN  title(SubSeq(s, 1, n - 1)) \o
                 (IF n > 1 /\ IsLetter(At(s, n - 1)) THEN LowerChar(c) ELSE UpperChar(c))

\* int(s) of a string of digits
RECURSIVE int(_)
int(s) ==
    IF Len(s) = 0 THEN 0
    ELSE 10 * int(SubSeq(s, 1, Len(s) - 1)) + IndexIn(DIGITS, At(s, Len(s))) - 1

\* sep.join(parts)
RECURSIVE Join(_, _)
Join(parts, sep) ==
    IF Len(parts) = 0 THEN ""
    ELSE IF Len(parts) = 1 THEN parts[1]
    ELSE parts[1] \o sep \o Join(Tail(parts), sep)

\* sorted(S) of a set of integers
RECURSIVE sorted(_)
sorted(S) ==
    IF S = {} THEN <<>>
    ELSE LET m == CHOOSE x \in S : \A y \in S : x <= y
         IN  <<m>> \o sorted(S \ {m})

\* the orders in which the elements of a set can be iterated
RECURSIVE SetOrders(_)
SetOrders(S) ==
    IF S = {} THEN {<<>>}
    ELSE UNION {{<<x>> \o t : t \in SetOrders(S \ {x})} : x \in S}

\* the elements of a sequence
Range(seq) == {seq[i] : i \in 1..Len(seq)}

\* ------------------------------------------------------------ parse_query

\* a where-clause of the store: one equality predicate {key: val}; int tells
\* an integer value (is_high_risk: 1) from a string one (year: "2023")
Eq(k, v) == [key |-> k, val |-> v, int |-> FALSE]
EqInt(k, v) == [key |-> k, val |-> v, int |-> TRUE]

\* a filter: None, one predicate, or {"$and": [predicates]}
NoFilter == [op |-> "none", preds |-> <<>>]

\* rag.py:48-64  in the order of the dict
LOCATION_MAP ==
    << [phrase |-> "vancouver",         fv |-> Eq("city", "Vancouver")],
       [phrase |-> "trinidad tobago",   fv |-> Eq("city", "Trinidad Tobago")],
       [phrase |-> "trinidad",          fv |-> Eq("city", "Trinidad Tobago")],
       [phrase |-> "tobago",            fv |-> Eq("city", "Trinidad Tobago")],
       [phrase |-> "working from home", fv |-> Eq("city", "Working Home")],
       [phrase |-> "work from home",    fv |-> Eq("city", "Working Home")],
       [phrase |-> "wfh",               fv |-> Eq("city", "Working Home")],
       [phrase |-> "remote",            fv |-> Eq("city", "Working Home")],
       [phrase |-> "brussels",          fv |-> Eq("city", "Brussels")],
       [phrase |-> "egypt",             fv |-> Eq("country", "Egypt")],
       [phrase |-> "new zealand",       fv |-> Eq("country", "New Zealand")],
       [phrase |-> "chile",             fv |-> Eq("country", "Chile")],
       [phrase |-> "usa",               fv |-> Eq("country", "Usa")],
       [phrase |-> "united states",     fv |-> Eq("country", "Usa")],
       [phrase |-> "canada",            fv |-> Eq("country", "Canada")] >>

\* rag.py:66-74
SEVERITY_MAP ==
    << [phrase |-> "major",                   fv |-> Eq("severity", "Major")],
       [phrase |-> "serious",                 fv |-> Eq("severity", "Serious")],
       [phrase |-> "potentially significant", fv |-> Eq("severity", "Potentially Significant")],
       [phrase |-> "near miss",               fv |-> Eq("severity", "Near Miss")],
       [phrase |-> "minor",                   fv |-> Eq("severity", "Minor")],
       [phrase |-> "high risk",               fv |-> EqInt("is_high_risk", "1")],
       [phrase |-> "high-risk",               fv |-> EqInt("is_high_risk", "1")] >>

\* rag.py:76-107
DOMAIN_EXPANSIONS ==
    << [keywords |-> {"incident", "accident", "event", "what happened"},
        expansion |-> "safety incident near miss accident event occurrence"],
       [keywords |-> {"cause", "why", "root", "reason"},
        expansion |-> "root cause failure reason contributing factor"],
       [keywords |-> {"prevent", "lesson", "avoid", "recommendation", "action"},
        expansion |-> "lessons learned prevention corrective action recommendation"],
       [keywords |-> {"contractor", "worker", "employee", "staff", "crew"},
        expansion |-> "contractor worker employee personnel crew technician"],
       [keywords |-> {"ai", "machine learning", "model", "algorithm", "predictive"},
        expansion |-> "AI artificial intelligence machine learning predictive model failure"],
       [keywords |-> {"cyber", "hack", "breach", "digital", "unauthorized"},
        expansion |-> "cybersecurity unauthorized access breach digital intrusion"],
       [keywords |-> {"chemical", "vapor", "spill", "release", "exposure"},
        expansion |-> "chemical vapor release spill exposure toxic hazardous"],
       [keywords |-> {"confined", "vessel", "tank", "entry", "space"},
        expansion |-> "confined space entry vessel permit work atmosphere"],
       [keywords |-> {"valve", "isolation", "pressure", "line", "pipe", "fitting"},
        expansion |-> "valve isolation pressure line pipe fitting maintenance"],
       [keywords |-> {"fall", "electric", "shock", "arc", "height", "ladder"},
        expansion |-> "fall height electrical shock arc flash energy"],
       [keywords |-> {"trend", "change", "increase", "grow", "pattern", "over time"},
        expansion |-> "trend change increase growth pattern year over year comparison"],
       [keywords |-> {"compare", "difference", "versus", "vs", "between", "before", "after"},
        expansion |-> "compare contrast difference versus comparison analysis period"],
       [keywords |-> {"pre-shift", "briefing", "brief", "morning", "start of shift", "today"},
        expansion |-> "pre-shift briefing safety hazard watch for alert awareness"],
       [keywords |-> {"pattern", "repeat", "recurring", "common", "frequent", "again"},
        expansion |-> "recurring pattern repeat systemic common frequent multiple incidents"],
       [keywords |-> {"worst", "severe", "serious", "critical", "major", "priority"},
        expansion |-> "major serious critical high risk severe priority escalation"] >>

\* rag.py:301-304
ComparisonKeywords ==
    {"compare", "versus", " vs ", "difference", "before", "after",
     "then look", "changed", "trend", "between"}

is_comparison(q) == \E kw \in ComparisonKeywords : Contains(q, kw)

\* mutant: no break, the last phrase found in q wins
FirstMatch_Last(table, q) ==
    LET m == {i \in 1..Len(table) : Contains(q, table[i].phrase)}
    IN  IF m = {} THEN 0 ELSE CHOOSE i \in m : \A j \in m : i >= j

\* rag.py:307-311, 312-316  the loop over a phrase table that breaks at the
\* first phrase found in q: the index of that entry, 0 when no phrase is found
FirstMatch(table, q) ==
    LET m == {i \in 1..Len(table) : Contains(q, table[i].phrase)}
    IN  IF m = {} THEN 0 ELSE CHOOSE i \in m : \A j \in m : i <= j

\* rag.py:117  YEAR_RE = \b(201\d|202\d)\b matches at position i of q
YearAt(q, i) ==
    /\ i + 3 <= Len(q)
    /\ SubSeq(q, i, i + 2) \in {"201", "202"}
    /\ IsDigit(At(q, i + 3))
    /\ (i = 1 \/ ~IsWordChar(At(q, i - 1)))
    /\ (i + 3 = Len(q) \/ ~IsWordChar(At(q, i + 4)))

\* YEAR_RE.findall(q), scanning from position i
RECURSIVE findall(_, _)
findall(q, i) ==
    IF i + 3 > Len(q) THEN <<>>
    ELSE IF YearAt(q, i) THEN <<SubSeq(q, i, i + 3)>> \o findall(q, i + 4)
    ELSE findall(q, i + 1)

\* the facts parse_query has extracted; None and <<>> stand for an absent key
NoFacts == [location |-> None, severity |-> None, years_mentioned |-> <<>>, year |-> None]

\* mutant: the tables are scanned whether or not comparison intent was detected
table_scan_Always(q, cmp) ==
    LET l == FirstMatch(LOCATION_MAP, q)
        s == FirstMatch(SEVERITY_MAP, q)
    IN  [filters_list |-> (IF l = 0 THEN <<>> ELSE <<LOCATION_MAP[l].fv>>) \o
                          (IF s = 0 THEN <<>> ELSE <<SEVERITY_MAP[s].fv>>),
         extracted |-> [NoFacts EXCEPT
                          !.location = IF l = 0 THEN None ELSE title(LOCATION_MAP[l].phrase),
                          !.severity = IF s = 0 THEN None ELSE title(SEVERITY_MAP[s].phrase)]]

\* rag.py:306-316  filters_list and extracted after the two table scans
table_scan(q, cmp) ==
    LET l == IF cmp THEN 0 ELSE FirstMatch(LOCATION_MAP, q)
        s == IF cmp THEN 0 ELSE FirstMatch(SEVERITY_MAP, q)
    IN  [filters_list |-> (IF l = 0 THEN <<>> ELSE <<LOCATION_MAP[l].fv>>) \o
                          (IF s = 0 THEN <<>> ELSE <<SEVERITY_MAP[s].fv>>),
         extracted |-> [NoFacts EXCEPT
                          !.location = IF l = 0 THEN None ELSE title(LOCATION_MAP[l].phrase),
                          !.severity = IF s = 0 THEN None ELSE title(SEVERITY_MAP[s].phrase)]]

\* rag.py:318-323  the years: years_mentioned, and the year filter
year_scan(years, cmp, fl, ex) ==
    IF years = <<>> THEN [filters_list |-> fl, extracted |-> ex]
    ELSE LET one == Len(years) = 1 /\ ~cmp
         IN  [filters_list |-> IF one THEN Append(fl, Eq("year", years[1])) ELSE fl,
              extracted |-> [ex EXCEPT
                               !.years_mentioned = sorted({int(y) : y \in Range(years)}),
                               !.year = IF one THEN years[1] ELSE None]]

\* mutant: a single predicate is wrapped in a conjunction too
final_filter_AlwaysAnd(filters_list) ==
    IF Len(filters_list) >= 1 THEN [op |-> "and", preds |-> filters_list]
    ELSE NoFilter

\* rag.py:325-329
final_filter(filters_list) ==
    IF Len(filters_list) = 1 THEN [op |-> "pred", preds |-> filters_list]
    ELSE IF Len(filters_list) > 1 THEN [op |-> "and", preds |-> filters_list]
    ELSE NoFilter

\* rag.py:331-334  the expansion phrases of the entries with a keyword in q
expansions(q) ==
    LET hit == SelectSeq(DOMAIN_EXPANSIONS, LAMBDA e : \E kw \in e.keywords : Contains(q, kw))
    IN  [i \in 1..Len(hit) |-> hit[i].expansion]

\* rag.py:335  query + " " + " ".join(set(expansions)): `order` is the order in
\* which the set is iterated, which the hash seed of the process decides
expanded(text, order) ==
    IF order = <<>> THEN text ELSE text \o " " \o Join(order, " ")

\* rag.py:296-337  what parse_query returns, but for the order of the expansions
parse_query(text) ==
    LET q   == lower(text)
        cmp == is_comparison(q)
        t   == table_scan(q, cmp)
        y   == year_scan(findall(q, 1), cmp, t.filters_list, t.extracted)
    IN  [final_filter |-> final_filter(y.filters_list),
         extracted    |-> y.extracted,
         expansions   |-> expansions(q)]

\* ------------------------------------------------------- the test corpus
\* Scores are integers in units of 0.0001 (every score is rounded to 4 decimals).

\* chunks of the index of SpecRetrieve
NumCorpus == 4

Corpus == 1..NumCorpus

\* metadata["report_id"]: chunks 1 and 2 are sections of one record
report_id(c) == IF c <= 2 THEN 1 ELSE c - 1

\* metadata["section"]
section(c) ==
    CASE c = 1 -> "What Happened"
      [] c = 2 -> "Root Cause"
      [] c = 3 -> "What Happened"
      [] c = 4 -> "Lessons & Prevention"
      [] OTHER -> "Causal Factors"

\* the words of the queries below that occur in the chunk's text; the text of
\* a chunk names its location
text_words(c) ==
    CASE c = 1 -> {"slip", "burn", "vancouver"}
      [] c = 2 -> {"slip", "vancouver"}
      [] c = 3 -> {"vancouver"}
      [] c = 4 -> {"slip", "burn"}
      [] OTHER -> {}

\* rag.py:212-229  the metadata a where-clause can test; the chunks of one
\* record have the record's values
metadata(c) ==
    [city         |-> Eq("city", IF c <= 3 THEN "Vancouver" ELSE "Brussels"),
     country      |-> Eq("country", IF c <= 3 THEN "Canada" ELSE "Belgium"),
     severity     |-> Eq("severity", IF c <= 2 THEN "Major" ELSE "Minor"),
     year         |-> Eq("year", IF c \in {1, 2, 4} THEN "2023" ELSE "2024"),
     is_high_risk |-> EqInt("is_high_risk", IF c <= 2 THEN "1" ELSE "0")]

\* the chunks whose metadata satisfies every predicate of the where-clause
Matches(where) ==
    {c \in Corpus : \A i \in 1..Len(where.preds) :
        /\ where.preds[i].key \in DOMAIN metadata(c)
        /\ metadata(c)[where.preds[i].key] = where.preds[i]}

IsLower(c) == IndexIn(LOWER, c) > 0
IsSpace(c) == c \in {" ", "\t", "\n"}

\* re.findall(r"[a-z]+", s): the maximal runs of lower-case letters of s
LetterRuns(s) ==
    {SubSeq(s, ij[1], ij[2]) : ij \in
        {p \in (1..Len(s)) \X (1..Len(s)) :
            /\ p[1] <= p[2]
            /\ \A k \in p[1]..p[2] : IsLower(At(s, k))
            /\ (p[1] = 1 \/ ~IsLower(At(s, p[1] - 1)))
            /\ (p[2] = Len(s) \/ ~IsLower(At(s, p[2] + 1)))}}

\* s.split(): the maximal runs of characters that are not white space
split(s) ==
    {SubSeq(s, ij[1], ij[2]) : ij \in
        {p \in (1..Len(s)) \X (1..Len(s)) :
            /\ p[1] <= p[2]
            /\ \A k \in p[1]..p[2] : ~IsSpace(At(s, k))
            /\ (p[1] = 1 \/ IsSpace(At(s, p[1] - 1)))
            /\ (p[2] = Len(s) \/ IsSpace(At(s, p[2] + 1)))}}

\* rag.py:382-385
stop ==
    {"the", "a", "an", "is", "in", "of", "to", "and", "for", "on", "at", "by", "with",
     "this", "that", "are", "was", "were", "be", "been", "have", "has", "had", "do",
     "did", "what", "how", "why", "when", "where", "which", "who"}

\* rag.py:110-111
FACTUAL_KEYWORDS ==
    {"what", "happened", "describe", "explain", "detail", "incident", "occurred",
     "event", "accident"}

\* rag.py:114-115
LESSON_KEYWORDS ==
    {"prevent", "lesson", "recommendation", "avoid", "action", "corrective", "improve",
     "future", "should", "next time"}

\* the query argument of retrieve
QueryTexts ==
    {"What slip or burn in Vancouver", "How should we do this", "Slip and burn in 2023"}

\* A query with what the reranker derives from the expanded query that retrieve
\* hands to it: q_words (rag.py:381-386) and whether its words meet
\* FACTUAL_KEYWORDS / LESSON_KEYWORDS (rag.py:361-365).  The order of the
\* expansions changes none of the three.
Query(text) ==
    LET q_lower == lower(expanded(text, expansions(lower(text))))
    IN  [text    |-> text,
         q_words |-> {w \in LetterRuns(q_lower) : w \notin stop /\ Len(w) > 2},
         factual |-> split(q_lower) \cap FACTUAL_KEYWORDS # {},
         lesson  |-> split(q_lower) \cap LESSON_KEYWORDS # {}]

Queries == {Query(text) : text \in QueryTexts}

\* {}: a dict without a predicate
EmptyDict == [op |-> "pred", preds |-> <<>>]

\* the filters argument of retrieve: None, {} or {"year": "2023"}
CallerFilters == {NoFilter, EmptyDict, [op |-> "pred", preds |-> <<Eq("year", "2023")>>]}

\* bool(filters) of None or a dict
truthy(f) == f.op = "and" \/ (f.op = "pred" /\ f.preds # <<>>)

NResultsValues == {0, 1, 2, 17}

SemLevels == {2000, 6000}

Min(a, b) == IF a < b THEN a ELSE b

\* sequences of distinct elements of S, of length at most n
RECURSIVE DistinctSeqs(_, _)
DistinctSeqs(S, n) ==
    IF n <= 0 \/ S = {} THEN {<<>>}
    ELSE {<<>>} \cup UNION {{<<x>> \o t : t \in DistinctSeqs(S \ {x}, n - 1)} : x \in S}

\* ------------------------------------------------------------- reranker

\* round(num / den) for den > 0, ties to the even integer
RoundDiv(num, den) ==
    LET q == num \div den
        r == num % den
    IN  IF 2 * r < den THEN q
        ELSE IF 2 * r > den THEN q + 1
        ELSE IF q % 2 = 0 THEN q ELSE q + 1

\* rag.py:344-353  hits / len(query_words) as the pair <<hits, len>>; <<0, 1>> is 0.0
_keyword_overlap_score(query_words, c) ==
    IF Cardinality(query_words) < 2 THEN <<0, 1>>
    ELSE <<Cardinality(query_words \cap text_words(c)), Cardinality(query_words)>>

\* rag.py:356-366  0.05 when the query intent matches the section
_section_preference_boost(q, sec) ==
    IF sec = "What Happened" /\ q.factual THEN 500
    ELSE IF sec = "Lessons & Prevention" /\ q.lesson THEN 500
    ELSE 0

\* mutant: the keyword term is subtracted
rounded_score_KwSubtracted(sem_score, kw_score, section_boost) ==
    RoundDiv(7 * sem_score * kw_score[2] - 3 * 10000 * kw_score[1]
                 + 10 * section_boost * kw_score[2],
             10 * kw_score[2])

\* rag.py:393-394  round(0.70 * sem_score + 0.30 * kw_score + section_boost, 4),
\* kw_score the pair <<hits, len>>
rounded_score(sem_score, kw_score, section_boost) ==
    RoundDiv(7 * sem_score * kw_score[2] + 3 * 10000 * kw_score[1]
                 + 10 * section_boost * kw_score[2],
             10 * kw_score[2])

\* rag.py:390-394  the new score of the hit h
final_score(h, q) ==
    rounded_score(h.score,
                  _keyword_overlap_score(q.q_words, h.id),
                  _section_preference_boost(q, section(h.id)))

\* sorted(..., key=score, reverse=True): stable, equal scores keep their order
RECURSIVE SortedDesc(_)
SortedDesc(hits) ==
    IF Len(hits) <= 1 THEN hits
    ELSE LET x    == hits[Len(hits)]
             rest == SortedDesc(SubSeq(hits, 1, Len(hits) - 1))
             k    == Cardinality({i \in 1..Len(rest) : rest[i].score >= x.score})
         IN  SubSeq(rest, 1, k) \o <<x>> \o SubSeq(rest, k + 1, Len(rest))

\* mutant: the last hit of every report_id is kept instead of the first
RECURSIVE FirstPerRecord_KeepLast(_)
FirstPerRecord_KeepLast(hits) ==
    IF hits = <<>> THEN <<>>
    ELSE LET rest == FirstPerRecord_KeepLast(SubSeq(hits, 2, Len(hits)))
             x    == hits[1]
         IN  IF \E i \in 1..Len(rest) : report_id(rest[i].id) = report_id(x.id)
             THEN rest ELSE <<x>> \o rest

\* rag.py:397-401  seen_records: the first hit of every report_id, in order
RECURSIVE FirstPerRecord(_)
FirstPerRecord(hits) ==
    IF hits = <<>> THEN <<>>
    ELSE LET rest == FirstPerRecord(SubSeq(hits, 1, Len(hits) - 1))
             x    == hits[Len(hits)]
         IN  IF \E i \in 1..Len(rest) : report_id(rest[i].id) = report_id(x.id)
             THEN rest ELSE Append(rest, x)

\* rag.py:388-394  scored
Scored(hits, q) == [i \in 1..Len(hits) |-> [id |-> hits[i].id, score |-> final_score(hits[i], q)]]

\* mutant: deduped[-n_results:], the tail is kept
Truncate_Tail(hits, n) == SubSeq(hits, Len(hits) - Min(n, Len(hits)) + 1, Len(hits))

\* deduped[:n_results]
Truncate(hits, n) == SubSeq(hits, 1, Min(n, Len(hits)))

\* rag.py:369-405
_rerank_and_dedup(hits, q, n) ==
    Truncate(SortedDesc(FirstPerRecord(SortedDesc(Scored(hits, q)))), n)

\* ------------------------------------------------------------- retrieve

\* rag.py:439  candidates_n = min(n_results * 3, 50)
OverFetch == 3
MaxCandidates == 50

\* mutant: six candidates for every result asked for
candidates_n_Double == Min(n_results * OverFetch * 2, MaxCandidates)

candidates_n == Min(n_results * OverFetch, MaxCandidates)

\* mutant: the unfiltered query is made below four filtered hits
BlendThreshold_Four == 3 + 1

\* rag.py:481  if len(filtered_hits) < 3
BlendThreshold == 3

\* rag.py:460-468  _parse_results: one hit per returned chunk, score = round(1 - dist, 4)
_parse_results(res) == [i \in 1..Len(res) |-> [id |-> res[i], score |-> sem[res[i]]]]

\* rag.py:450-458  what _collection.query can return for n results and a where-clause:
\* up to n distinct chunks of the collection that satisfy the clause, in any order
QueryResults(where, n) ==
    DistinctSeqs(IF Live(_collection) THEN coll.items \cap Matches(where) ELSE {}, n)

\* mutant: the filter is dropped, the pool is the unfiltered hits alone
Blend_DropFilter(fh, uh, n) == uh

\* rag.py:488-495  the candidate pool when fewer than 3 filtered hits came back
Blend(fh, uh, n) ==
    IF fh # <<>>
    THEN LET filtered_ids == {report_id(fh[i].id) : i \in 1..Len(fh)}
             extra == SelectSeq(uh, LAMBDA h : report_id(h.id) \notin filtered_ids)
         IN  fh \o SubSeq(extra, 1, Min(n - Len(fh), Len(extra)))
    ELSE uh

\* mutant: the filter of parse_query replaces the caller's whenever there is one
RetrieveEnter_ParserWins ==
    /\ rpc = "start"
    /\ IF _collection = NoHandle
       THEN /\ raised' = "RuntimeError"
            /\ rpc' = "done"
            /\ UNCHANGED <<filters, parsed_info>>
       ELSE /\ parsed_info' = parse_query(query.text).extracted
            /\ filters' = IF parse_query(query.text).final_filter # NoFilter
                           THEN parse_query(query.text).final_filter
                           ELSE filters
            /\ rpc' = "filter"
            /\ UNCHANGED raised
    /\ UNCHANGED <<query, n_results, sem, fres, ures, filtered_hits, unfiltered_hits,
                   candidates, final_hits, sysVars, unitVars>>

\* rag.py:433-448  the handle check, then parse_query and the choice of the filter
RetrieveEnter ==
    /\ rpc = "start"
    /\ IF _collection = NoHandle
       THEN /\ raised' = "RuntimeError"
            /\ rpc' = "done"
            /\ UNCHANGED <<filters, parsed_info>>
       ELSE /\ parsed_info' = parse_query(query.text).extracted
            /\ filters' = IF filters = NoFilter THEN parse_query(query.text).final_filter
                                               ELSE filters
            /\ rpc' = "filter"
            /\ UNCHANGED raised
    /\ UNCHANGED <<query, n_results, sem, fres, ures, filtered_hits, unfiltered_hits,
                   candidates, final_hits, sysVars, unitVars>>

\* mutant: no try/except around the filtered query
RetrieveFiltered_Uncaught ==
    /\ rpc = "filter"
    /\ IF truthy(filters)
       THEN \/ /\ fres' = "error"
               /\ raised' = "StoreError"
               /\ rpc' = "done"
               /\ UNCHANGED filtered_hits
            \/ \E res \in QueryResults(filters, candidates_n) :
                   /\ fres' = "ok"
                   /\ filtered_hits' = _parse_results(res)
                   /\ rpc' = "blend"
                   /\ UNCHANGED raised
       ELSE /\ rpc' = "blend"
            /\ UNCHANGED <<fres, filtered_hits, raised>>
    /\ UNCHANGED <<query, n_results, filters, sem, parsed_info, ures, unfiltered_hits,
                   candidates, final_hits, sysVars, unitVars>>

\* rag.py:470-478  the filtered query; an exception of the store is logged and dropped
RetrieveFiltered ==
    /\ rpc = "filter"
    /\ IF truthy(filters)
       THEN \/ /\ fres' = "error"
               /\ filtered_hits' = <<>>
            \/ \E res \in QueryResults(filters, candidates_n) :
                   /\ fres' = "ok"
                   /\ filtered_hits' = _parse_results(res)
       ELSE UNCHANGED <<fres, filtered_hits>>
    /\ rpc' = "blend"
    /\ UNCHANGED <<query, n_results, filters, sem, parsed_info, ures, unfiltered_hits,
                   candidates, final_hits, raised, sysVars, unitVars>>

\* rag.py:499-507  no candidate: ([], parsed_info); else rerank, dedup, cut
Rerank(cands) ==
    IF cands = <<>> THEN <<>> ELSE _rerank_and_dedup(cands, query, n_results)

\* mutant: a failure of the unfiltered query makes retrieve forget the handle
RetrieveBlend_DropsHandle ==
    /\ rpc = "blend"
    /\ IF Len(filtered_hits) < BlendThreshold
       THEN \/ /\ ures' = "error"
               /\ unfiltered_hits' = <<>>
               /\ candidates' = Blend(filtered_hits, <<>>, candidates_n)
               /\ _collection' = NoHandle
            \/ \E res \in QueryResults(NoFilter, candidates_n) :
                   /\ ures' = "ok"
                   /\ unfiltered_hits' = _parse_results(res)
                   /\ candidates' = Blend(filtered_hits, _parse_results(res), candidates_n)
                   /\ UNCHANGED _collection
       ELSE /\ candidates' = filtered_hits
            /\ UNCHANGED <<ures, unfiltered_hits, _collection>>
    /\ final_hits' = Rerank(candidates')
    /\ rpc' = "done"
    /\ UNCHANGED <<query, n_results, filters, sem, parsed_info, fres, filtered_hits,
                   raised, phase, csv, coll, _df, _rebuilding, task, req, lastGood,
                   unitVars>>

\* rag.py:480-507  below 3 filtered hits the unfiltered query runs (an exception
\* of the store gives no hit) and is blended in; the pool is reranked and returned
RetrieveBlend ==
    /\ rpc = "blend"
    /\ IF Len(filtered_hits) < BlendThreshold
       THEN \/ /\ ures' = "error"
               /\ unfiltered_hits' = <<>>
               /\ candidates' = Blend(filtered_hits, <<>>, candidates_n)
            \/ \E res \in QueryResults(NoFilter, candidates_n) :
                   /\ ures' = "ok"
                   /\ unfiltered_hits' = _parse_results(res)
                   /\ candidates' = Blend(filtered_hits, _parse_results(res), candidates_n)
       ELSE /\ candidates' = filtered_hits
            /\ UNCHANGED <<ures, unfiltered_hits>>
    /\ final_hits' = Rerank(candidates')
    /\ rpc' = "done"
    /\ UNCHANGED <<query, n_results, filters, sem, parsed_info, fres, filtered_hits,
                   raised, sysVars, unitVars>>

\* a served process: never initialized, an empty index, or the corpus indexed
RetrieveInit ==
    /\ phase = "serving"
    /\ csv = "A" /\ _df = "A" /\ _rebuilding = FALSE
    /\ task = [t \in Tasks |-> IdleTask]
    /\ req = [c \in Reqs |-> IdleReq]
    /\ \/ _collection = NoHandle /\ coll = NoColl /\ lastGood = NoGood
       \/ _collection = "cur" /\ coll = [exists |-> TRUE, items |-> {}] /\ lastGood = Good({})
       \/ _collection = "cur" /\ coll = [exists |-> TRUE, items |-> Corpus]
                              /\ lastGood = Good(Corpus)
    /\ rpc = "start"
    /\ query \in Queries
    /\ n_results \in NResultsValues
    /\ filters \in CallerFilters
    /\ sem \in [Corpus -> SemLevels]
    /\ parsed_info = None /\ fres = None /\ ures = None
    /\ filtered_hits = <<>> /\ unfiltered_hits = <<>> /\ candidates = <<>>
    /\ final_hits = <<>> /\ raised = None
    /\ UnitIdle

RetrieveNext ==
    \/ RetrieveEnter
    \/ RetrieveFiltered
    \/ RetrieveBlend

SpecRetrieve == RetrieveInit /\ [][RetrieveNext]_vars

\* ------------------------------------------------- claims on retrieve

RecordIds(hits) == {report_id(hits[i].id) : i \in 1..Len(hits)}

\* the final scores of the candidates of record r
RecordScores(r) ==
    {final_score(candidates[k], query) :
        k \in {j \in 1..Len(candidates) : report_id(candidates[j].id) = r}}

\* C6: a store failure on the filtered query does not leave retrieve: the
\* filtered hits count as empty and the pool is the unfiltered hits; with an
\* initialized store retrieve raises nothing, whichever query fails.
C6_StoreFailureRecovered ==
    /\ (rpc = "done" /\ _collection # NoHandle) => raised = None
    /\ (rpc \in {"blend", "done"} /\ fres = "error") => filtered_hits = <<>>
    /\ (rpc = "done" /\ raised = None /\ fres = "error") =>
           /\ ures # None
           /\ candidates = unfiltered_hits

C6_Witness ==
    /\ rpc = "done" /\ fres = "error" /\ ures = "ok"
    /\ raised = None /\ final_hits # <<>>

\* C7: with fewer than 3 filtered hits, every filtered hit's record id is in
\* the candidate pool handed to the reranker.
C7_FilteredHitsKept ==
    (rpc = "done" /\ raised = None /\ Len(filtered_hits) < BlendThreshold) =>
        /\ RecordIds(filtered_hits) \subseteq RecordIds(candidates)
        /\ \A i \in 1..Len(filtered_hits) : candidates[i] = filtered_hits[i]

\* a blend that had to cut unfiltered hits of other records to fit the pool
C7_Witness ==
    /\ rpc = "done"
    /\ filtered_hits # <<>> /\ Len(filtered_hits) < BlendThreshold
    /\ Len(candidates) = candidates_n
    /\ ~(RecordIds(unfiltered_hits) \subseteq RecordIds(candidates))

\* C9: the returned hits hold at most one chunk per record id, and the chunk
\* kept for a record has the maximum final score among that record's candidates.
C9_OnePerRecordBest ==
    rpc = "done" =>
        /\ \A i, j \in 1..Len(final_hits) :
               i # j => report_id(final_hits[i].id) # report_id(final_hits[j].id)
        /\ \A i \in 1..Len(final_hits) :
               /\ \E k \in 1..Len(candidates) :
                      /\ candidates[k].id = final_hits[i].id
                      /\ final_score(candidates[k], query) = final_hits[i].score
               /\ \A sc \in RecordScores(report_id(final_hits[i].id)) :
                      sc <= final_hits[i].score

\* a record with two candidate chunks of different final scores was returned
C9_Witness ==
    /\ rpc = "done"
    /\ \E i \in 1..Len(final_hits) :
           Cardinality(RecordScores(report_id(final_hits[i].id))) > 1

\* C10: the returned hits are in descending order of final score, at most
\* n_results of them, and no candidate of a record that was cut off scores
\* higher than a returned hit.
C10_SortedTopN ==
    rpc = "done" =>
        /\ Len(final_hits) <= n_results
        /\ \A i, j \in 1..Len(final_hits) :
               i < j => final_hits[i].score >= final_hits[j].score
        /\ \A r \in RecordIds(candidates) \ RecordIds(final_hits) :
               \A sc \in RecordScores(r) :
                   \A i \in 1..Len(final_hits) : sc <= final_hits[i].score

\* more records in the pool than n_results, the returned hits of different scores
C10_Witness ==
    /\ rpc = "done"
    /\ n_results = 2 /\ Len(final_hits) = 2
    /\ Cardinality(RecordIds(candidates)) > n_results
    /\ final_hits[1].score > final_hits[2].score
    /\ \E r \in RecordIds(candidates) \ RecordIds(final_hits) :
           \E sc \in RecordScores(r) : sc < final_hits[2].score

\* C11: a filter passed by the caller is the one retrieve keeps and queries the
\* store with, whatever parse_query derives from the query text: the filtered
\* query runs with it and returns only chunks that satisfy it.  The filter of
\* parse_query is taken only when the caller passed None.
C11_ExplicitFilterWins ==
    [][/\ (rpc = "start" /\ rpc' = "filter") =>
              filters' = IF filters # NoFilter THEN filters
                         ELSE parse_query(query.text).final_filter
       /\ rpc = "filter" =>
              /\ filters' = filters
              /\ (fres' # None) = truthy(filters)
              /\ \A i \in 1..Len(filtered_hits') : filtered_hits'[i].id \in Matches(filters)
       /\ rpc = "blend" => filters' = filters]_vars

\* the caller passed {"year": "2023"} with a query that names Vancouver; the
\* filtered query returned a chunk of 2023 that is not of Vancouver
C11_Witness ==
    /\ rpc = "done"
    /\ filters = [op |-> "pred", preds |-> <<Eq("year", "2023")>>]
    /\ parse_query(query.text).final_filter = [op |-> "pred", preds |-> <<Eq("city", "Vancouver")>>]
    /\ fres = "ok"
    /\ \E i \in 1..Len(filtered_hits) :
           filtered_hits[i].id \notin Matches(parse_query(query.text).final_filter)

C30_FilterKeptAtThreeHits ==
    rpc = "done" =>
        /\ Len(filtered_hits) >= 3 =>
               /\ ures = None /\ unfiltered_hits = <<>>
               /\ \A i \in 1..Len(final_hits) :
                      /\ \E j \in 1..Len(filtered_hits) :
                             filtered_hits[j].id = final_hits[i].id
                      /\ final_hits[i].id \in Matches(filters)
        /\ (\E i \in 1..Len(final_hits) : final_hits[i].id \notin Matches(filters)) =>
               Len(filtered_hits) < 3

\* three filtered hits of two records came back and two hits were returned,
\* while the collection holds a chunk that the filter excludes
C30_Witness ==
    /\ rpc = "done"
    /\ Len(filtered_hits) = 3
    /\ Len(final_hits) = 2
    /\ coll.items \ Matches(filters) # {}

\* C26: no step of retrieve changes the chunks of the collection, the handle
\* rag._collection or the loaded dataset rag._df, whatever the query, the
\* filter and the outcome of the store queries.
C26_RetrieveReadOnly ==
    [][(rpc \in {"start", "filter", "blend"}) =>
          (coll' = coll /\ _collection' = _collection /\ _df' = _df)]_vars

\* a call whose filtered query succeeded and whose unfiltered query failed has
\* returned a hit; the index is the one the call found
C26_Witness ==
    /\ rpc = "done"
    /\ fres = "ok" /\ ures = "error"
    /\ Len(final_hits) = 1
    /\ _collection = "cur" /\ coll.items = Corpus /\ _df = "A"

\* retrieve on an index that holds no chunk (the retrieve half of C8): no
\* exception, an empty hit list and the parsed facts
EmptyIndexRetrieve ==
    (rpc = "done" /\ Live(_collection) /\ coll.items = {}) =>
        /\ raised = None
        /\ final_hits = <<>>
        /\ parsed_info = parse_query(query.text).extracted

\* ------------------------------------------- one parse_query call (SpecParse)

\* the queries parsed: up to MaxFrags of these fragments, joined by blanks
MaxFrags == 3

Fragments ==
    {"What happened in", "Vancouver in", "trinidad", "Canada", "compare",
     "major", "high risk", "2023", "2024", "rev2023"}

\* the fragments that are a year
YearTokens == {"2023", "2024"}

RECURSIVE FragSeqs(_)
FragSeqs(n) ==
    IF n = 0 THEN {<<>>}
    ELSE FragSeqs(n - 1) \cup
         {Append(s, f) : s \in {t \in FragSeqs(n - 1) : Len(t) = n - 1}, f \in Fragments}

\* the process a pure function is called in: nothing is served, no retrieve runs
NoProcess ==
    /\ phase = "down" /\ csv = None
    /\ coll = NoColl /\ _collection = NoHandle /\ _df = None /\ _rebuilding = FALSE
    /\ task = [t \in Tasks |-> IdleTask]
    /\ req = [c \in Reqs |-> IdleReq]
    /\ lastGood = NoGood
    /\ RetIdle

\* rag.py:296-299  the frame at the entry of parse_query(query)
ParseFrame(frags) ==
    [pc |-> "start", frags |-> frags, query |-> Join(frags, " "), q |-> None,
     is_comparison |-> FALSE, filters_list |-> <<>>, extracted |-> NoFacts,
     years |-> <<>>, final_filter |-> NoFilter, expansions |-> <<>>, expanded |-> None]

ParseInit ==
    /\ NoProcess
    /\ parse \in {ParseFrame(frags) : frags \in FragSeqs(MaxFrags)}
    /\ score = None /\ chunks = None /\ observed = <<>>
    /\ embed = None /\ load = None

\* rag.py:297-304
ParseEnter ==
    /\ parse.pc = "start"
    /\ parse' = [parse EXCEPT !.pc = "tables",
                              !.q = lower(parse.query),
                              !.is_comparison = is_comparison(lower(parse.query))]
    /\ UNCHANGED <<sysVars, retVars, score, chunks, observed, embed, load>>

\* rag.py:306-316
ParseTables ==
    /\ parse.pc = "tables"
    /\ LET t == table_scan(parse.q, parse.is_comparison)
       IN  parse' = [parse EXCEPT !.pc = "years",
                                  !.filters_list = t.filters_list,
                                  !.extracted = t.extracted]
    /\ UNCHANGED <<sysVars, retVars, score, chunks, observed, embed, load>>

\* rag.py:318-323
ParseYears ==
    /\ parse.pc = "years"
    /\ LET years == findall(parse.q, 1)
           y == year_scan(years, parse.is_comparison, parse.filters_list, parse.extracted)
       IN  parse' = [parse EXCEPT !.pc = "combine",
                                  !.years = years,
                                  !.filters_list = y.filters_list,
                                  !.extracted = y.extracted]
    /\ UNCHANGED <<sysVars, retVars, score, chunks, observed, embed, load>>

\* rag.py:325-329
ParseCombine ==
    /\ parse.pc = "combine"
    /\ parse' = [parse EXCEPT !.pc = "expand",
                              !.final_filter = final_filter(parse.filters_list)]
    /\ UNCHANGED <<sysVars, retVars, score, chunks, observed, embed, load>>

\* rag.py:331-337  the expansions are joined in the iteration order of a set
ParseExpand ==
    /\ parse.pc = "expand"
    /\ \E order \in SetOrders(Range(expansions(parse.q))) :
           parse' = [parse EXCEPT !.pc = "done",
                                  !.expansions = expansions(parse.q),
                                  !.expanded = expanded(parse.query, order)]
    /\ UNCHANGED <<sysVars, retVars, score, chunks, observed, embed, load>>

ParseNext ==
    \/ ParseEnter
    \/ ParseTables
    \/ ParseYears
    \/ ParseCombine
    \/ ParseExpand

SpecParse == ParseInit /\ [][ParseNext]_vars

\* ---------------------------------------------------- claims on parse_query

\* the distinct years among the fragments of the parsed query, ascending
MentionedYears == sorted({int(f) : f \in Range(parse.frags) \cap YearTokens})

\* the predicates of a filters_list on the given keys
PredsOn(keys) == SelectSeq(parse.filters_list, LAMBDA p : p.key \in keys)

LocationKeys == {"city", "country"}
SeverityKeys == {"severity", "is_high_risk"}

\* C12: when comparison intent is detected, parse_query returns no filter (no
\* location, severity or year predicate is extracted) and years_mentioned is
\* the ascending list of the distinct years of the query; "compare" with two
\* distinct years gives both years and the filter None.
C12_ComparisonNoFilter ==
    (parse.pc = "done" /\ parse.is_comparison) =>
        /\ parse.final_filter = NoFilter
        /\ parse.filters_list = <<>>
        /\ parse.extracted.location = None
        /\ parse.extracted.severity = None
        /\ parse.extracted.year = None
        /\ parse.extracted.years_mentioned = MentionedYears

\* "compare" and two distinct years
C12_Witness ==
    /\ parse.pc = "done" /\ parse.is_comparison
    /\ Contains(parse.q, "compare")
    /\ parse.extracted.years_mentioned = <<2023, 2024>>
    /\ parse.final_filter = NoFilter

\* C13: the year predicate is added, and the year recorded in extracted, exactly
\* when the query mentions one distinct year (however often) and comparison
\* intent is false.
C13_YearFilterIffOneDistinctYear ==
    parse.pc = "done" =>
        LET one == Len(MentionedYears) = 1 /\ ~parse.is_comparison
        IN  /\ one <=> PredsOn({"year"}) # <<>>
            /\ one <=> parse.extracted.year # None
            /\ one => /\ PredsOn({"year"}) = <<Eq("year", parse.extracted.year)>>
                      /\ int(parse.extracted.year) = MentionedYears[1]

\* C14: at most one location predicate and at most one severity predicate are
\* added; without comparison intent each is the predicate of the first entry,
\* in table order, whose phrase occurs in the lower-cased query.
C14_FirstMatchWins ==
    parse.pc = "done" =>
        LET ql   == lower(parse.query)
            locs == {i \in 1..Len(LOCATION_MAP) : Contains(ql, LOCATION_MAP[i].phrase)}
            sevs == {i \in 1..Len(SEVERITY_MAP) : Contains(ql, SEVERITY_MAP[i].phrase)}
        IN  /\ Len(PredsOn(LocationKeys)) <= 1
            /\ Len(PredsOn(SeverityKeys)) <= 1
            /\ ~parse.is_comparison =>
                /\ \A i \in locs : (\A j \in locs : i <= j) =>
                       PredsOn(LocationKeys) = <<LOCATION_MAP[i].fv>>
                /\ locs = {} => PredsOn(LocationKeys) = <<>>
                /\ \A i \in sevs : (\A j \in sevs : i <= j) =>
                       PredsOn(SeverityKeys) = <<SEVERITY_MAP[i].fv>>
                /\ sevs = {} => PredsOn(SeverityKeys) = <<>>

\* two location phrases of different places occur, the later table entry
\* first in the text
C14_Witness ==
    /\ parse.pc = "done" /\ ~parse.is_comparison
    /\ parse.frags = <<"Canada", "trinidad">>
    /\ parse.filters_list = <<Eq("city", "Trinidad Tobago")>>

\* the predicate the phrase table gives for a recorded fact, <<>> for None
FactPred(table, fact) ==
    IF fact = None THEN <<>>
    ELSE LET i == CHOOSE k \in 1..Len(table) : table[k].name = fact
         IN  <<table[i].fv>>

\* the phrase tables with the name each phrase is recorded under
Named(table) ==
    [k \in 1..Len(table) |-> [name |-> title(table[k].phrase), fv |-> table[k].fv]]

LocationNames == Named(LOCATION_MAP)
SeverityNames == Named(SEVERITY_MAP)

\* the predicates extracted, in the order location, severity, year
ExtractedPreds ==
    FactPred(LocationNames, parse.extracted.location) \o
    FactPred(SeverityNames, parse.extracted.severity) \o
    (IF parse.extracted.year = None THEN <<>> ELSE <<Eq("year", parse.extracted.year)>>)

\* C15: the filter returned is None with no predicate extracted, the predicate
\* itself with one, and the $and of all of them (location, severity, year) with
\* two or more; "What happened in Vancouver in 2023" gives the conjunction of
\* {city: Vancouver} and {year: "2023"}.
C15_FilterShape ==
    parse.pc = "done" =>
        /\ Len(ExtractedPreds) = 0 => parse.final_filter = NoFilter
        /\ Len(ExtractedPreds) = 1 =>
               parse.final_filter = [op |-> "pred", preds |-> ExtractedPreds]
        /\ Len(ExtractedPreds) >= 2 =>
               parse.final_filter = [op |-> "and", preds |-> ExtractedPreds]
        /\ parse.query = "What happened in Vancouver in 2023" =>
               parse.final_filter =
                   [op |-> "and", preds |-> <<Eq("city", "Vancouver"), Eq("year", "2023")>>]

C15_Witness ==
    /\ parse.pc = "done"
    /\ parse.query = "What happened in Vancouver in 2023"
    /\ parse.final_filter.op = "and"

\* C16: the expanded query is the original text followed by the expansion
\* phrase of every table entry with a trigger keyword in the query, each once
\* and in table order, so that two runs on one query return the same string.
C16_ExpandedInTableOrder ==
    parse.pc = "done" =>
        parse.expanded =
            IF parse.expansions = <<>> THEN parse.query
            ELSE parse.query \o " " \o Join(parse.expansions, " ")

\* ------------------------------------ the scoring of two candidates (SpecScore)

\* semantic scores run over -1.0000, -MaxSem..MaxSem (in 0.0001) and 1.0000
MaxSem == 8

\* a query keeps up to MaxWords words
MaxWords == 3

\* h["score"] = round(1 - dist, 4) for a cosine distance in [0, 2]
SemScores == {-10000, 10000} \cup (-MaxSem..MaxSem)

\* rag.py:349-353  the values of _keyword_overlap_score: 0.0 below two query
\* words, else hits / len(query_words)
KwScores ==
    {<<0, 1>>} \cup {kn \in (0..MaxWords) \X (2..MaxWords) : kn[1] <= kn[2]}

\* rag.py:363-366
SectionBoosts == {0, 500}

\* rag.py:388  two hits of one section, not yet scored
ScoreInit ==
    /\ NoProcess
    /\ parse = None /\ chunks = None /\ observed = <<>>
    /\ embed = None /\ load = None
    /\ score \in {[pc |-> 1, hits |-> <<[sem_score |-> s1, kw_score |-> k1],
                                        [sem_score |-> s2, kw_score |-> k2]>>,
                   section_boost |-> sb, scored |-> <<>>] :
                      s1 \in SemScores, s2 \in SemScores,
                      k1 \in KwScores, k2 \in KwScores, sb \in SectionBoosts}

\* rag.py:389-394  one turn of the loop over the hits
ScoreHit ==
    /\ score.pc <= Len(score.hits)
    /\ LET h == score.hits[score.pc]
       IN  score' = [score EXCEPT
                       !.pc = @ + 1,
                       !.scored = Append(@, rounded_score(h.sem_score, h.kw_score,
                                                          score.section_boost))]
    /\ UNCHANGED <<sysVars, retVars, parse, chunks, observed, embed, load>>

SpecScore == ScoreInit /\ [][ScoreHit]_vars

\* a <= b for the fractions a, b given as <<numerator, denominator>>
FracLeq(a, b) == a[1] * b[2] <= b[1] * a[2]

\* C17: for two candidates with the same section boost, one with the higher
\* semantic score and the same keyword score, or the higher keyword score and
\* the same semantic score, never gets the lower final (rounded) score.
C17_ScoreMonotonic ==
    score.pc > Len(score.hits) =>
        LET h1 == score.hits[1]
            h2 == score.hits[2]
            sem_raised == /\ h1.sem_score <= h2.sem_score
                          /\ FracLeq(h1.kw_score, h2.kw_score)
                          /\ FracLeq(h2.kw_score, h1.kw_score)
            kw_raised  == /\ h1.sem_score = h2.sem_score
                          /\ FracLeq(h1.kw_score, h2.kw_score)
        IN  (sem_raised \/ kw_raised) => score.scored[1] <= score.scored[2]

\* a semantic score raised over a rounding tie, and a keyword score raised
C17_Witness ==
    /\ score.pc > Len(score.hits)
    /\ score.hits[1] = [sem_score |-> 5, kw_score |-> <<1, 3>>]
    /\ score.hits[2] = [sem_score |-> 5, kw_score |-> <<1, 2>>]
    /\ score.scored[1] < score.scored[2]

\* C23: every final score lies between 0 and 0.70 + 0.30 + 0.05, whatever
\* cosine distance in [0, 2] the store reported for the hit.
C23_ScoreInRange ==
    \A i \in 1..Len(score.scored) :
        /\ 0 <= score.scored[i]
        /\ score.scored[i] <= 7000 + 3000 + 500

\* ---------------------------------- build_chunks on one row (SpecChunks)

\* an empty cell of the CSV, read as NaN
NaN == "<NaN>"

\* str(v) of a cell
str(v) == IF v = NaN THEN "nan" ELSE v

\* Series.str.title() / Series.fillna
str_title(v) == IF v = NaN THEN NaN ELSE title(v)
fillna(v, d) == IF v = NaN THEN d ELSE v

\* str.strip()
RECURSIVE strip(_)
strip(s) ==
    IF Len(s) = 0 THEN s
    ELSE IF At(s, 1) \in {" ", "\t", "\n"} THEN strip(SubSeq(s, 2, Len(s)))
    ELSE IF At(s, Len(s)) \in {" ", "\t", "\n"} THEN strip(SubSeq(s, 1, Len(s) - 1))
    ELSE s

\* rag.py:39-44
SECTIONS ==
    << [section_label |-> "What Happened",        col |-> "what_happened"],
       [section_label |-> "Root Cause",           col |-> "why_did_it_happen"],
       [section_label |-> "Causal Factors",       col |-> "causal_factors"],
       [section_label |-> "Lessons & Prevention", col |-> "lessons_to_prevent"] >>

\* rag.py:46, 143  RISK_MAP, and "Unknown" for any other risk code
risk_label(risk) ==
    IF risk = NaN THEN "Unknown"
    ELSE CASE int(risk) = 1 -> "High"
           [] int(risk) = 2 -> "Medium"
           [] int(risk) = 3 -> "Low"
           [] OTHER         -> "Unknown"

\* rag.py:131-137
_infer_country(country, city_clean) ==
    IF country # NaN /\ strip(country) # "" THEN title(strip(country))
    ELSE IF Contains(lower(city_clean), "vancouver") \/ Contains(lower(city_clean), "working home")
         THEN "Canada"
         ELSE "Unknown"

\* rag.py:140-172  the row after load_and_clean; median is the dataset's median year
load_and_clean(raw, median) ==
    LET city_clean    == title(strip(fillna(raw.city, "")))
        country_clean == _infer_country(raw.country, city_clean)
    IN  [report_id          |-> int(raw.report_id),
         risk_label         |-> risk_label(raw.risk),
         title_clean        |-> str_title(raw.title),
         severity_clean     |-> str_title(raw.severity),
         category_clean     |-> str_title(raw.category),
         year               |-> IF raw.year = NaN THEN median ELSE int(raw.year),
         city_clean         |-> city_clean,
         country_clean      |-> country_clean,
         location_label     |-> IF city_clean # "" THEN city_clean ELSE country_clean,
         what_happened      |-> fillna(raw.what_happened, ""),
         why_did_it_happen  |-> fillna(raw.why_did_it_happen, ""),
         causal_factors     |-> fillna(raw.causal_factors, ""),
         lessons_to_prevent |-> fillna(raw.lessons_to_prevent, "")]

\* rag.py:179-184
_build_location(row) ==
    LET city    == strip(str(row.city_clean))
        country == strip(str(row.country_clean))
    IN  IF city # "" /\ city \notin {"", "Unknown", "Nan"}
        THEN IF country \notin {"Unknown", ""} THEN city \o ", " \o country ELSE city
        ELSE IF country # "Unknown" THEN country ELSE "Unknown Location"

\* the bracketed first line of a chunk, from its six fields
Header(id, severity, category, location, year, risk) ==
    "[Record #" \o id \o " | " \o severity \o " | " \o category \o " | " \o location
        \o " | " \o year \o " | Risk:" \o risk \o "]"

\* rag.py:192-195
header(row, loc) ==
    Header(ToString(row.report_id), str(row.severity_clean), str(row.category_clean),
           loc, ToString(row.year), row.risk_label)

\* rag.py:199  the shortest narrative that is indexed
MinChars == 20

\* mutant: a narrative of exactly 20 characters is skipped too
skipped_AtMost(text) == Len(text) <= MinChars

\* rag.py:199-200  if len(text) < 20: continue
skipped(text) == Len(text) < MinChars

\* rag.py:202-229  the chunk of one section: id, text and metadata
chunk(row, loc, hd, sec, text) ==
    [id   |-> "rec" \o ToString(row.report_id) \o "_" \o sec.col,
     text |-> hd \o "\n" \o "Title: " \o str(row.title_clean) \o "\n"
                 \o "Location: " \o loc \o "\n"
                 \o "Section: " \o sec.section_label \o "\n\n" \o text,
     meta |-> [report_id |-> ToString(row.report_id),
               title     |-> str(row.title_clean),
               severity  |-> str(row.severity_clean),
               category  |-> str(row.category_clean),
               country   |-> str(row.country_clean),
               city      |-> str(row.city_clean),
               location  |-> loc,
               year      |-> ToString(row.year),
               risk      |-> row.risk_label,
               section   |-> sec.section_label]]

\* the longest narrative tried
MaxText == 21

\* a narrative of n characters that neither starts nor ends with a blank
Body(n) == SubSeq(LOWER, 1, n)

\* the narrative cells tried: empty, and 19, 20 and MaxText characters, the
\* first also between blanks
TextCells ==
    {NaN, Body(MinChars - 1), " " \o Body(MinChars - 1) \o " ", Body(MinChars), Body(MaxText)}

\* the other cells of the rows tried
RowCells ==
    {[report_id |-> "42", title |-> "pump seal leak", category |-> "process safety",
      severity |-> f[1], risk |-> f[2], year |-> f[3], city |-> c, country |-> k] :
        f \in {<<"near miss", "1", "2023">>, <<NaN, "9", NaN>>},
        c \in {NaN, " vancouver", "brussels", "unknown"},
        k \in {NaN, "belgium"}}

RawRows ==
    {[report_id |-> r.report_id, title |-> r.title, category |-> r.category,
      severity |-> r.severity, risk |-> r.risk, year |-> r.year,
      city |-> r.city, country |-> r.country,
      what_happened |-> t[1], why_did_it_happen |-> t[2],
      causal_factors |-> t[3], lessons_to_prevent |-> t[4]] :
        r \in RowCells, t \in TextCells \X TextCells \X TextCells \X TextCells}

\* the median year of the dataset the row belongs to
MedianYear == 2021

ChunksInit ==
    /\ NoProcess
    /\ parse = None /\ score = None /\ observed = <<>>
    /\ embed = None /\ load = None
    /\ chunks \in {[pc |-> "clean", raw |-> raw, row |-> None, loc |-> None, hd |-> None,
                    k |-> 0, out |-> <<>>] : raw \in RawRows}

\* rag.py:140-172  load_and_clean
ChunksClean ==
    /\ chunks.pc = "clean"
    /\ chunks' = [chunks EXCEPT !.pc = "header",
                                !.row = load_and_clean(chunks.raw, MedianYear)]
    /\ UNCHANGED <<sysVars, retVars, parse, score, observed, embed, load>>

\* rag.py:190-195  the location and the header of the row
ChunksHeader ==
    /\ chunks.pc = "header"
    /\ chunks' = [chunks EXCEPT !.pc = "section", !.k = 1,
                                !.loc = _build_location(chunks.row),
                                !.hd = header(chunks.row, _build_location(chunks.row))]
    /\ UNCHANGED <<sysVars, retVars, parse, score, observed, embed, load>>

\* rag.py:197-229  one turn of the loop over SECTIONS
ChunksSection ==
    /\ chunks.pc = "section"
    /\ LET sec  == SECTIONS[chunks.k]
           text == strip(str(chunks.row[sec.col]))
       IN  chunks' = [chunks EXCEPT
                        !.pc = IF chunks.k = Len(SECTIONS) THEN "done" ELSE "section",
                        !.k = IF chunks.k = Len(SECTIONS) THEN 0 ELSE @ + 1,
                        !.out = IF skipped(text) THEN @
                                ELSE Append(@, chunk(chunks.row, chunks.loc, chunks.hd,
                                                     sec, text))]
    /\ UNCHANGED <<sysVars, retVars, parse, score, observed, embed, load>>

ChunksNext ==
    \/ ChunksClean
    \/ ChunksHeader
    \/ ChunksSection

SpecChunks == ChunksInit /\ [][ChunksNext]_vars

\* ---------------------------------------------------- claims on build_chunks

\* the length of a cell between its first and its last non-blank character
TrimmedLength(v) ==
    LET s == IF v = NaN THEN "" ELSE v
        solid == {i \in 1..Len(s) : At(s, i) \notin {" ", "\t", "\n"}}
    IN  IF solid = {} THEN 0
        ELSE (CHOOSE i \in solid : \A j \in solid : j <= i)
             - (CHOOSE i \in solid : \A j \in solid : i <= j) + 1

\* the ids of the chunks built
ChunkIds == {chunks.out[i].id : i \in 1..Len(chunks.out)}

\* C18: a section yields a chunk exactly when its narrative holds at least 20
\* characters after trimming (19 never, 20 always); a record yields 0 to 4 chunks.
C18_ChunkIffTwentyChars ==
    chunks.pc = "done" =>
        /\ \A k \in 1..Len(SECTIONS) :
               ("rec" \o chunks.raw.report_id \o "_" \o SECTIONS[k].col) \in ChunkIds
                   <=> TrimmedLength(chunks.raw[SECTIONS[k].col]) >= 20
        /\ Len(chunks.out) \in 0..4
        /\ Len(chunks.out) = Cardinality(ChunkIds)

\* a narrative of 19 characters between blanks (21 with them) gave no chunk,
\* one of exactly 20 did
C18_Witness ==
    /\ chunks.pc = "done"
    /\ Len(chunks.raw.what_happened) = 21 /\ TrimmedLength(chunks.raw.what_happened) = 19
    /\ TrimmedLength(chunks.raw.causal_factors) = 20
    /\ ChunkIds = {"rec42_causal_factors"}

\* C20: the fields of every chunk's header are the record's normalized fields:
\* report id, severity, category, location_label, year and risk tier.
C20_HeaderFromRecord ==
    chunks.pc = "done" =>
        \A i \in 1..Len(chunks.out) :
            LET expected == Header(ToString(chunks.row.report_id),
                                   str(chunks.row.severity_clean),
                                   str(chunks.row.category_clean),
                                   chunks.row.location_label,
                                   ToString(chunks.row.year),
                                   chunks.row.risk_label)
            IN  SubSeq(chunks.out[i].text, 1, Len(expected) + 1) = expected \o "\n"

\* ------------------------------- rebuilds in a row, one dataset (SpecRebuild)

\* no initialize and no rebuild is under way
Quiet == \A t \in Tasks : task[t].pc \in {"none", "done"}

\* the rebuild threads whose result has been read
ObservedTasks == {observed[i].t : i \in 1..Len(observed)}

\* a served process without an index; the dataset at CSV_PATH is never replaced
\* by another one
RebuildInit ==
    /\ phase = "serving"
    /\ csv \in DatasetIds
    /\ coll = NoColl /\ _collection = NoHandle /\ _df = None /\ _rebuilding = FALSE
    /\ task = [t \in Tasks |-> IdleTask]
    /\ req = [c \in Reqs |-> IdleReq]
    /\ lastGood = NoGood
    /\ RetIdle
    /\ UnitIdle

\* the client uploads the dataset again once the rebuild before has ended
UploadAgain(t) ==
    /\ Quiet
    /\ t \notin ObservedTasks
    /\ upload_dataset(t, csv)

\* a client reads the ids the collection holds (collection.get()) when the
\* rebuild of thread t has returned normally, before the thread ends
Observe(t) ==
    /\ task[t].pc = "finally" /\ ~task[t].failed
    /\ t \notin ObservedTasks
    /\ observed' = Append(observed, [t |-> t, df |-> _df, live |-> Live(_collection),
                                     items |-> coll.items])
    /\ UNCHANGED <<sysVars, retVars, parse, score, chunks, embed, load>>

RebuildNext ==
    \/ \E t \in Uploads : UploadAgain(t)
    \/ \E t \in Uploads : RebuildStart(t)
    \/ \E t \in Uploads : RebuildCopy(t)
    \/ \E t \in Uploads, ok \in BOOLEAN : initialize(t, ok)
    \/ \E t \in Uploads : BuildEnter(t)
    \/ \E t \in Uploads : BuildDelete(t)
    \/ \E t \in Uploads : BuildCreate(t)
    \/ \E t \in Uploads : BuildAssign(t)
    \/ \E t \in Uploads, ok \in BOOLEAN : BuildEmbed(t, ok)
    \/ \E t \in Uploads, ok \in BOOLEAN : BuildAdd(t, ok)
    \/ \E t \in Uploads : Observe(t)
    \/ \E t \in Uploads : RebuildFinally(t)

SpecRebuild == RebuildInit /\ [][RebuildNext]_vars

MaxCallers == 3

Callers == 1..MaxCallers

\* rag.py:122  _embedder = None; an instance is named by the number of its construction
NoModel == 0

\* a thread outside _get_embedder; m is the value it holds (the instance under
\* construction, then the value returned)
IdleCaller == [pc |-> "idle", m |-> NoModel]

\* a served process that found its index in the store at startup: build_index
\* returned the collection (rag.py:255-259) and never called _get_embedder
EmbedderInit ==
    /\ phase = "serving"
    /\ csv = "A" /\ _df = "A" /\ _rebuilding = FALSE
    /\ _collection = "cur"
    /\ coll = [exists |-> TRUE, items |-> build_chunks("A")]
    /\ lastGood = Good(build_chunks("A"))
    /\ task = [t \in Tasks |-> IdleTask]
    /\ req = [c \in Reqs |-> IdleReq]
    /\ RetIdle
    /\ parse = None /\ score = None /\ chunks = None /\ observed = <<>>
    /\ load = None
    /\ embed = [_embedder |-> NoModel, built |-> 0,
                thread |-> [t \in Callers |-> IdleCaller]]

\* rag.py:273, 445  the thread calls _get_embedder()
GetEmbedderCall(t) ==
    /\ embed.thread[t].pc = "idle"
    /\ embed' = [embed EXCEPT !.thread[t].pc = "check"]
    /\ UNCHANGED <<sysVars, retVars, parse, score, chunks, observed, load>>

\* rag.py:241  if _embedder is None
GetEmbedderCheck(t) ==
    /\ embed.thread[t].pc = "check"
    /\ embed' = [embed EXCEPT !.thread[t].pc =
                     IF embed._embedder = NoModel THEN "construct" ELSE "return"]
    /\ UNCHANGED <<sysVars, retVars, parse, score, chunks, observed, load>>

\* rag.py:243  SentenceTransformer("all-MiniLM-L6-v2") loads the model
GetEmbedderConstruct(t) ==
    /\ embed.thread[t].pc = "construct"
    /\ embed' = [embed EXCEPT !.built = @ + 1,
                              !.thread[t].m = embed.built + 1,
                              !.thread[t].pc = "assign"]
    /\ UNCHANGED <<sysVars, retVars, parse, score, chunks, observed, load>>

\* rag.py:243  _embedder = <the instance constructed>
GetEmbedderAssign(t) ==
    /\ embed.thread[t].pc = "assign"
    /\ embed' = [embed EXCEPT !._embedder = embed.thread[t].m,
                              !.thread[t].m = NoModel,
                              !.thread[t].pc = "return"]
    /\ UNCHANGED <<sysVars, retVars, parse, score, chunks, observed, load>>

\* rag.py:245  return _embedder
GetEmbedderReturn(t) ==
    /\ embed.thread[t].pc = "return"
    /\ embed' = [embed EXCEPT !.thread[t].m = embed._embedder,
                              !.thread[t].pc = "encode"]
    /\ UNCHANGED <<sysVars, retVars, parse, score, chunks, observed, load>>

\* rag.py:275-277, 445  .encode(...) on the value returned; the thread is free again
Encode(t) ==
    /\ embed.thread[t].pc = "encode"
    /\ embed' = [embed EXCEPT !.thread[t] = IdleCaller]
    /\ UNCHANGED <<sysVars, retVars, parse, score, chunks, observed, load>>

EmbedderNext ==
    \E t \in Callers :
        \/ GetEmbedderCall(t)
        \/ GetEmbedderCheck(t)
        \/ GetEmbedderConstruct(t)
        \/ GetEmbedderAssign(t)
        \/ GetEmbedderReturn(t)
        \/ Encode(t)

SpecEmbedder == EmbedderInit /\ [][EmbedderNext]_vars

\* C21: the embedding model is constructed at most once, whatever the
\* interleaving of the threads that ask for it, and a thread that encodes holds
\* an instance whose construction has completed.
C21_EmbedderConstructedOnce ==
    /\ embed.built <= 1
    /\ \A t \in Callers :
           embed.thread[t].pc = "encode" =>
               embed.thread[t].m \in 1..embed.built

\* ----------------------------- load_and_clean on a dataset (SpecLoad)

\* rows of the CSV
MaxRows == 3

\* the year and risk cells tried: numbers, an empty cell, and text that is no number
YearCells == {"2019", "2024", NaN, "20x3"}
RiskCells == {"1", "9", NaN, "high"}

Datasets ==
    UNION {[1..n -> [year : YearCells, risk : RiskCells]] : n \in 1..MaxRows}

\* the cell is read as a number by pd.read_csv
IsNumber(cell) == cell # NaN /\ Len(cell) > 0 /\ \A i \in 1..Len(cell) : IsDigit(At(cell, i))

\* rag.py:141  pd.read_csv infers the type of a column: numbers when every
\* cell that is not empty is a number, else the cells are kept as strings
dtype(cells) ==
    IF \A i \in 1..Len(cells) : cells[i] = NaN \/ IsNumber(cells[i]) THEN "number"
    ELSE "object"

\* the k-th smallest of the numbers v[1..]
Kth(v, k) ==
    CHOOSE x \in Range(v) :
        /\ Cardinality({i \in 1..Len(v) : v[i] < x}) < k
        /\ Cardinality({i \in 1..Len(v) : v[i] <= x}) >= k

\* NaN in a column of floats, whose numbers are kept doubled
FloatNaN == -1

\* twice Series.median() of a column of numbers, its empty cells skipped;
\* NaN when there is no number
median2(cells) ==
    LET v == [i \in 1..Len(SelectSeq(cells, IsNumber)) |-> int(SelectSeq(cells, IsNumber)[i])]
        n == Len(v)
    IN  IF n = 0 THEN FloatNaN
        ELSE IF n % 2 = 1 THEN 2 * Kth(v, (n + 1) \div 2)
        ELSE Kth(v, n \div 2) + Kth(v, n \div 2 + 1)

\* rag.py:143  df["risk"].map(RISK_MAP).fillna("Unknown"): the keys of RISK_MAP
\* are the numbers 1, 2, 3, which no cell of a column of strings equals
risk_labels(cells) ==
    [i \in 1..Len(cells) |->
        IF dtype(cells) = "number" THEN risk_label(cells[i]) ELSE "Unknown"]

\* rag.py:141  the frame after pd.read_csv(csv_path)
LoadFrame(df) ==
    [pc |-> "risk", df |-> df,
     year |-> [i \in 1..Len(df) |-> df[i].year],
     risk |-> [i \in 1..Len(df) |-> df[i].risk],
     risk_label |-> <<>>, raised |-> None]

LoadInit ==
    /\ NoProcess
    /\ parse = None /\ score = None /\ chunks = None /\ observed = <<>>
    /\ embed = None
    /\ load \in {LoadFrame(df) : df \in Datasets}

\* rag.py:143
LoadRisk ==
    /\ load.pc = "risk"
    /\ load' = [load EXCEPT !.pc = "median", !.risk_label = risk_labels(load.risk)]
    /\ UNCHANGED <<sysVars, retVars, parse, score, chunks, observed, embed>>

\* rag.py:147  df["year"].median() raises on a column of strings; fillna puts
\* the median into the empty cells
LoadYearFill ==
    /\ load.pc = "median"
    /\ IF dtype(load.year) = "object"
       THEN load' = [load EXCEPT !.pc = "done", !.raised = "TypeError"]
       ELSE load' = [load EXCEPT
                       !.pc = "astype",
                       !.year = [i \in 1..Len(load.year) |->
                                    IF load.year[i] = NaN THEN median2(load.year)
                                    ELSE 2 * int(load.year[i])]]
    /\ UNCHANGED <<sysVars, retVars, parse, score, chunks, observed, embed>>

\* rag.py:147  .astype(int) cuts the fraction of a median between two years and
\* raises when a cell is still NaN (no row has a year)
LoadYearCast ==
    /\ load.pc = "astype"
    /\ IF \E i \in 1..Len(load.year) : load.year[i] = FloatNaN
       THEN load' = [load EXCEPT !.pc = "done", !.raised = "ValueError"]
       ELSE load' = [load EXCEPT !.pc = "done",
                                 !.year = [i \in 1..Len(load.year) |-> load.year[i] \div 2]]
    /\ UNCHANGED <<sysVars, retVars, parse, score, chunks, observed, embed>>

LoadNext ==
    \/ LoadRisk
    \/ LoadYearFill
    \/ LoadYearCast

SpecLoad == LoadInit /\ [][LoadNext]_vars

\* C22: load_and_clean returns for every dataset, with every row; a row whose
\* year is empty or no number has the median year of the dataset, a row whose
\* risk code is not 1, 2 or 3 has the risk tier "Unknown".
C22_LoadNeverFails ==
    load.pc = "done" =>
        /\ load.raised = None
        /\ Len(load.year) = Len(load.df) /\ Len(load.risk_label) = Len(load.df)
        /\ \A i \in 1..Len(load.df) :
               /\ ~IsNumber(load.df[i].year) =>
                      load.year[i] = median2([j \in 1..Len(load.df) |-> load.df[j].year]) \div 2
               /\ load.df[i].risk \notin {"1", "2", "3"} => load.risk_label[i] = "Unknown"

\* ------------------- startups and rebuilds, one at a time (SpecIndex)

\* a process that is down; the store holds no collection
IndexInit ==
    /\ phase = "down"
    /\ csv \in DatasetIds
    /\ coll = NoColl /\ _collection = NoHandle /\ _df = None /\ _rebuilding = FALSE
    /\ task = [t \in Tasks |-> IdleTask]
    /\ req = [c \in Reqs |-> IdleReq]
    /\ lastGood = NoGood
    /\ RetIdle
    /\ UnitIdle

\* a dataset is uploaded while no rebuild is under way
UploadWhenQuiet(t, d) ==
    /\ Quiet
    /\ upload_dataset(t, d)

IndexNext ==
    \/ Startup
    \/ Crash
    \/ StartupDone
    \/ \E t \in Uploads, d \in DatasetIds : UploadWhenQuiet(t, d)
    \/ \E t \in Uploads : RebuildStart(t)
    \/ \E t \in Uploads : RebuildCopy(t)
    \/ \E t \in Uploads : RebuildFinally(t)
    \/ \E t \in Tasks, ok \in BOOLEAN : initialize(t, ok)
    \/ \E t \in Tasks : BuildEnter(t)
    \/ \E t \in Tasks : BuildDelete(t)
    \/ \E t \in Tasks : BuildCreate(t)
    \/ \E t \in Tasks : BuildAssign(t)
    \/ \E t \in Tasks, ok \in BOOLEAN : BuildEmbed(t, ok)
    \/ \E t \in Tasks, ok \in BOOLEAN : BuildAdd(t, ok)

SpecIndex == IndexInit /\ [][IndexNext]_vars

\* C25: build_index returns the collection it finds, untouched, exactly when a
\* collection exists, holds a chunk and the force flag is not set; in every
\* other case it goes on to drop and build the collection from the dataframe
\* it was given, and when that build returns the collection holds the chunks
\* of that dataframe.
C25_CacheOrRebuild ==
    [][\A t \in Tasks :
          /\ (task[t].pc = "enter" /\ task'[t].pc # "enter" /\ phase' # "down") =>
                 IF coll.exists /\ coll.items # {} /\ ~force_rebuild(t)
                 THEN /\ task'[t].pc = "finally" /\ task'[t].accepted /\ ~task'[t].failed
                      /\ coll' = coll /\ Live(_collection')
                 ELSE /\ task'[t].pc = "delete" /\ task'[t].df = _df
                      /\ coll' = coll
          /\ (task[t].pc \in {"embed", "add"} /\ task'[t].pc = "finally" /\ ~task'[t].failed) =>
                 (~task'[t].accepted /\ coll'.items = build_chunks(task[t].df))]_vars

\* a startup found an empty collection in the store and goes on to rebuild it
C25_Witness ==
    /\ task[0].pc = "delete"
    /\ coll.exists /\ coll.items = {}
    /\ _collection = "cur"
    /\ NumChunks(task[0].df) > 0

\* ------------------------ the process with its threads scheduled (SpecLive)

\* a step of thread t: lifespan's initialize for thread 0, _rebuild_index_task
\* for an upload thread
ThreadStep(t) ==
    \/ RebuildStart(t)
    \/ RebuildCopy(t)
    \/ \E ok \in BOOLEAN : initialize(t, ok)
    \/ BuildEnter(t)
    \/ BuildDelete(t)
    \/ BuildCreate(t)
    \/ BuildAssign(t)
    \/ \E ok \in BOOLEAN : BuildEmbed(t, ok)
    \/ \E ok \in BOOLEAN : BuildAdd(t, ok)
    \/ RebuildFinally(t)

\* a process that is down, with the dataset A at CSV_PATH and no collection
LiveInit == Init /\ csv = "A"

\* a client uploads the dataset that is at CSV_PATH once more; the uploads
\* overlap as far as the guard of upload_dataset lets them
UploadSame(t) ==
    /\ t \in Uploads
    /\ upload_dataset(t, csv)

\* the process without chat and status requests
LiveNext ==
    \/ Startup
    \/ StartupDone
    \/ Crash
    \/ \E t \in Uploads : UploadSame(t)
    \/ \E t \in Uploads : RebuildStart(t)
    \/ \E t \in Uploads : RebuildCopy(t)
    \/ \E t \in Uploads : RebuildFinally(t)
    \/ \E t \in Tasks, ok \in BOOLEAN : initialize(t, ok)
    \/ \E t \in Tasks : BuildEnter(t)
    \/ \E t \in Tasks : BuildDelete(t)
    \/ \E t \in Tasks : BuildCreate(t)
    \/ \E t \in Tasks : BuildAssign(t)
    \/ \E t \in Tasks, ok \in BOOLEAN : BuildEmbed(t, ok)
    \/ \E t \in Tasks, ok \in BOOLEAN : BuildAdd(t, ok)

\* a thread that can run is run again: the worker threads of the pool are
\* scheduled by the interpreter, and every store and embedder call returns or
\* raises. Uploads, startups and crashes come from outside and are not forced.
LiveFairness == \A t \in Uploads : WF_vars(ThreadStep(t))

SpecLive == LiveInit /\ [][LiveNext]_vars /\ LiveFairness

\* C29: a rebuild that has set the rebuild flag is followed by a state in which
\* its thread has ended and the flag is clear, whether initialize returned or
\* raised.
C29_RebuildFlagCleared ==
    \A t \in Uploads :
        (task[t].pc = "copy" /\ _rebuilding) ~> (task[t].pc = "none" /\ ~_rebuilding)

\* a rebuild whose initialize raised is about to run its finally clause with
\* the flag still set
C29_Witness ==
    \E t \in Uploads :
        /\ phase = "serving"
        /\ task[t].pc = "finally" /\ task[t].failed
        /\ _rebuilding

=============================================================================
